---- MODULE Spec2Model ----
(***************************************************************************)
(* Entity resolution and family-graph consistency engine of               *)
(* ancestral-synth: the person store (persons, child links, spouse links, *)
(* creation queue), the scheduler (process_next), reference resolution    *)
(* (_resolve_person_reference), duplicate-parent reconciliation           *)
(* (_check_and_merge_duplicate_parents) and record merging                *)
(* (_merge_persons).                                                      *)
(*                                                                         *)
(* Representation.  A person id (uuid4) is a positive integer handed out  *)
(* by a counter; GhostId is a well-formed UUID that was never handed out. *)
(* An absent string (None) is NoName, an absent year is NoYear.  A raw    *)
(* name is the sequence of its whitespace-separated tokens, so the empty  *)
(* and the whitespace-only string are both << >>.  Scores are hundredths. *)
(* added_at is a logical clock that every queue insert advances (each     *)
(* insert is followed by a flush, so wall-clock stamps are distinct).     *)
(***************************************************************************)
EXTENDS Integers, Sequences, FiniteSets, TLC

VARIABLES
    persons,      \* session view of table persons: id -> row
    childLinks,   \* session view of table child_links: set of <<parent, child>>
    spouseLinks,  \* session view of table spouse_links: set of <<person1, person2>>
    queue,        \* session view of table creation_queue: set of entries
    clock,        \* next added_at stamp
    nextId,       \* next person id uuid4 hands out
    committed,    \* the store as of the last commit
    pc,           \* position of the pipeline
    subject,      \* the Person object the cycle passes to _process_references
    phase,        \* which loop of _process_references is running
    refCount,     \* references resolved so far
    sched,        \* what the last process_next call saw and chose
    cur,          \* the reference in hand and what resolve did with it
    rec,          \* what the last parent-link step did
    qlog,         \* what the last queue operation did
    vpc,          \* position of _validate_and_correct
    extracted,    \* the facts _validate_and_correct was called with
    current_data, \* its current_data
    validation,   \* its validation
    attempt,      \* calls of the Correction Oracle made so far
    corrections,  \* what the Correction Oracle returned, call by call
    iteration,    \* passes of the loop of the generate command started so far
    torn,         \* the store the session held when the last exception was raised
    rpc,          \* position of the wrapper of retry_with_backoff
    max_retries,  \* config.max_retries
    retry_attempt,\* the loop variable attempt of the wrapper
    calls,        \* the outcome of each call of func, in order
    last_exception, \* which call raised the exception the wrapper holds, 0 if none
    raised,       \* which call raised the exception the wrapper let out, 0 if none
    delays,       \* what the wrapper slept, sleep by sleep
    arg,          \* the arguments of the function called on its own
    ret,          \* what it returned
    limiter,      \* the RateLimiter: _tokens, _last_update, _lock, _last_wait_time
    loop          \* the event loop: clock, position of each task, grants so far

validatorVars == <<vpc, extracted, current_data, validation, attempt, corrections>>

driverVars == <<iteration, torn>>

retryVars == <<rpc, max_retries, retry_attempt, calls, last_exception, raised, delays>>

harnessVars == <<arg, ret>>

limiterVars == <<limiter, loop>>

sideVars == <<retryVars, harnessVars, limiterVars>>

pipelineVars == <<persons, childLinks, spouseLinks, queue, clock, nextId, committed,
                  pc, subject, phase, refCount, sched, cur, rec, qlog>>

vars == <<persons, childLinks, spouseLinks, queue, clock, nextId, committed,
          pc, subject, phase, refCount, sched, cur, rec, qlog,
          vpc, extracted, current_data, validation, attempt, corrections,
          iteration, torn,
          rpc, max_retries, retry_attempt, calls, last_exception, raised, delays,
          arg, ret, limiter, loop>>

----------------------------------------------------------------------------
(* Bounds of the model *)

MaxPersons == 4
MaxCount == 3
MaxRetriesBound == 3
MaxInversions == 8
MaxScored == 6
MaxTasks == 3
MaxNow == 8
Interval == 3
MaxRefs == 2
MaxEnqueues == 3
MaxLinks == 3
MaxPriority == 2
QueueIds == 3

(* Settings of RetryConfig, delays in tenths of a second *)

BaseDelay == 20
MaxDelay == 600
ExponentialBase == 2

(* Sentinels *)

NoName == ""
NoYear == -1
NoId == -1
GhostId == 0

(* Program constants *)

CurrentYear == 2025
AcceptThreshold == 50
SpouseBump == 60
MaxCandidates == 5
DupYearWindow == 5
LinkedPriority == 1
BirthYearFloor == 1500
MinParentAge == 14
MaxParentAge == 60
MaxLifespan == 120
MaxCorrectionAttempts == 2
OlderFatherAllowance == 20
PosthumousAllowance == 1
SpouseAgeGap == 30

Max(a, b) == IF a >= b THEN a ELSE b
Min(a, b) == IF a <= b THEN a ELSE b
Abs(a) == IF a < 0 THEN 0 - a ELSE a

----------------------------------------------------------------------------
(* Strings *)

\* str.lower() over the vocabulary of the model
Lower(s) ==
    CASE s = "Mary" -> "mary"
      [] s = "MARY" -> "mary"
      [] s = "John" -> "john"
      [] s = "Smith" -> "smith"
      [] s = "SMITH" -> "smith"
      [] s = "Jones" -> "jones"
      [] s = "Maryann" -> "maryann"
      [] s = "Unknown" -> "unknown"
      [] s = "Jr" -> "jr"
      [] s = "Sr" -> "sr"
      [] OTHER -> s

\* hay ILIKE '%needle%': case-insensitive substring; the only vocabulary
\* word that is a proper substring of another is Mary, of Maryann
ILikeContains(hay, needle) ==
    \/ Lower(hay) = Lower(needle)
    \/ Lower(hay) = "maryann" /\ Lower(needle) = "mary"

\* the generational suffix the pattern \b(Jr\.?|Sr\.?|III|IV|II|2nd|3rd)\b
\* finds in a token, and what the substitution leaves of the token
SuffixTokens == {"Jr.", "Jr", "Sr.", "Sr", "III", "IV", "II", "2nd", "3rd"}

SuffixMatch(tok) ==
    CASE tok = "Jr." -> "Jr"
      [] tok = "Sr." -> "Sr"
      [] OTHER -> tok

SuffixResidue(tok) ==
    CASE tok = "Jr." -> "."
      [] tok = "Sr." -> "."
      [] OTHER -> ""

\* a parenthesised maiden-name token and the name it carries
NeeTokens == {"(nee Jones)", "(nee Smith)"}

NeeName(tok) ==
    CASE tok = "(nee Jones)" -> "Jones"
      [] tok = "(nee Smith)" -> "Smith"
      [] OTHER -> NoName

RECURSIVE FirstNee(_)
FirstNee(toks) ==
    IF toks = << >> THEN NoName
    ELSE IF Head(toks) \in NeeTokens THEN NeeName(Head(toks))
    ELSE FirstNee(Tail(toks))

RECURSIVE DropNee(_)
DropNee(toks) ==
    IF toks = << >> THEN << >>
    ELSE IF Head(toks) \in NeeTokens THEN DropNee(Tail(toks))
    ELSE <<Head(toks)>> \o DropNee(Tail(toks))

RECURSIVE FindSuffixes(_)
FindSuffixes(toks) ==
    IF toks = << >> THEN << >>
    ELSE IF Head(toks) \in SuffixTokens
         THEN <<SuffixMatch(Head(toks))>> \o FindSuffixes(Tail(toks))
         ELSE FindSuffixes(Tail(toks))

RECURSIVE DropSuffixes(_)
DropSuffixes(toks) ==
    IF toks = << >> THEN << >>
    ELSE IF Head(toks) \in SuffixTokens
         THEN (IF SuffixResidue(Head(toks)) = "" THEN << >>
               ELSE <<SuffixResidue(Head(toks))>>) \o DropSuffixes(Tail(toks))
         ELSE <<Head(toks)>> \o DropSuffixes(Tail(toks))

SeqToSet(s) == {s[i] : i \in 1..Len(s)}

\* the end of parse_name: given / middle / surname by the number of parts
name_fields(parts, maiden, suffixes) ==
    [given_name |-> IF Len(parts) = 0 THEN "Unknown" ELSE parts[1],
     middle_names |-> IF Len(parts) >= 3 THEN SubSeq(parts, 2, Len(parts) - 1) ELSE << >>,
     surname |-> IF Len(parts) <= 1 THEN "Unknown" ELSE parts[Len(parts)],
     maiden_name |-> maiden,
     suffixes |-> suffixes]

\* parse_name: the maiden name is taken out first, then the suffixes
parse_name(full_name) ==
    name_fields(DropSuffixes(DropNee(full_name)), FirstNee(full_name),
                FindSuffixes(DropNee(full_name)))

\* ParsedName.all_surnames
all_surnames(p) ==
    {Lower(p.surname)} \cup
    (IF p.maiden_name # NoName THEN {Lower(p.maiden_name)} ELSE {})

\* the lower-cased middle names of a parsed name
middle_set(p) == {Lower(m) : m \in SeqToSet(p.middle_names)}

\* candidate_all_parts: the lower-cased given, middle and surname parts
all_name_parts(p) == {Lower(p.given_name), Lower(p.surname)} \cup middle_set(p)

\* a score that never looks at the suffixes
match_score_without_suffixes(np, new_birth_year, cp, candidate_birth_year) ==
    LET surname_score ==
            IF all_surnames(np) \cap all_surnames(cp) # {} THEN 25
            ELSE IF Lower(np.surname) \in all_name_parts(cp) THEN 20
            ELSE IF Lower(cp.surname) \in all_name_parts(np) THEN 20
            ELSE 0
        middle_score ==
            IF middle_set(np) \cap middle_set(cp) # {} THEN 10 ELSE 0
        name_score ==
            IF Lower(np.given_name) = Lower(cp.given_name)
            THEN 25 + surname_score + middle_score
            ELSE 0
        year_score ==
            IF new_birth_year = NoYear \/ candidate_birth_year = NoYear THEN 0
            ELSE IF Abs(new_birth_year - candidate_birth_year) = 0 THEN 50
            ELSE IF Abs(new_birth_year - candidate_birth_year) <= 2 THEN 45
            ELSE IF Abs(new_birth_year - candidate_birth_year) <= 5 THEN 30
            ELSE 0
    IN  Max(0, Min(name_score + year_score, 100))

\* heuristic_match_score after both names are parsed, in hundredths
match_score(np, new_birth_year, cp, candidate_birth_year) ==
    LET surname_score ==
            IF all_surnames(np) \cap all_surnames(cp) # {} THEN 25
            ELSE IF Lower(np.surname) \in all_name_parts(cp) THEN 20
            ELSE IF Lower(cp.surname) \in all_name_parts(np) THEN 20
            ELSE 0
        middle_score ==
            IF middle_set(np) \cap middle_set(cp) # {} THEN 10 ELSE 0
        name_score ==
            IF Lower(np.given_name) = Lower(cp.given_name)
            THEN 25 + surname_score + middle_score
            ELSE 0
        year_score ==
            IF new_birth_year = NoYear \/ candidate_birth_year = NoYear THEN 0
            ELSE IF Abs(new_birth_year - candidate_birth_year) = 0 THEN 50
            ELSE IF Abs(new_birth_year - candidate_birth_year) <= 2 THEN 45
            ELSE IF Abs(new_birth_year - candidate_birth_year) <= 5 THEN 30
            ELSE 0
    IN  IF /\ np.suffixes # << >>
           /\ cp.suffixes # << >>
           /\ SeqToSet(np.suffixes) # SeqToSet(cp.suffixes)
        THEN 0
        ELSE Max(0, Min(name_score + year_score, 100))

\* heuristic_match_score
heuristic_match_score(new_name, new_birth_year, candidate_name, candidate_birth_year) ==
    match_score(parse_name(new_name), new_birth_year,
                parse_name(candidate_name), candidate_birth_year)

----------------------------------------------------------------------------
(* Person store: repositories *)

\* PersonRepository.update with the given column values
person_update(ps, id, changes) ==
    IF id \notin DOMAIN ps THEN ps
    ELSE [ps EXCEPT ![id] =
             [f \in DOMAIN ps[id] |->
                 IF f \in DOMAIN changes THEN changes[f] ELSE ps[id][f]]]

\* PersonRepository.delete: the row goes, links are left to the caller
person_delete(ps, id) == [i \in (DOMAIN ps) \ {id} |-> ps[i]]

\* PersonRepository.create
person_create(ps, id, row) == [i \in (DOMAIN ps) \cup {id} |-> IF i = id THEN row ELSE ps[i]]

\* ChildLinkRepository.exists / get_children / get_parents / get_parent_count
child_exists(links, parent_id, child_id) == <<parent_id, child_id>> \in links
get_children(links, parent_id) == {l[2] : l \in {k \in links : k[1] = parent_id}}
get_parents(links, child_id) == {l[1] : l \in {k \in links : k[2] = child_id}}
get_parent_count(links, child_id) == Cardinality({k \in links : k[2] = child_id})

\* ChildLinkRepository.delete
child_delete(links, parent_id, child_id) == links \ {<<parent_id, child_id>>}

\* a reassignment that only removes the old link
reassign_parent_delete_only(links, old_parent_id, new_parent_id, child_id) ==
    child_delete(links, old_parent_id, child_id)

\* ChildLinkRepository.reassign_parent
reassign_parent(links, old_parent_id, new_parent_id, child_id) ==
    IF child_exists(links, new_parent_id, child_id)
    THEN child_delete(links, old_parent_id, child_id)
    ELSE IF child_exists(links, old_parent_id, child_id)
         THEN (links \ {<<old_parent_id, child_id>>}) \cup {<<new_parent_id, child_id>>}
         ELSE links

\* the loop of reassign_all_parent_links over the children read up front
RECURSIVE reassign_parent_loop(_, _, _, _)
reassign_parent_loop(links, old_parent_id, new_parent_id, child_ids) ==
    IF child_ids = {} THEN links
    ELSE LET c == CHOOSE x \in child_ids : TRUE
         IN  reassign_parent_loop(reassign_parent(links, old_parent_id, new_parent_id, c),
                                  old_parent_id, new_parent_id, child_ids \ {c})

\* ChildLinkRepository.reassign_all_parent_links
reassign_all_parent_links(links, old_parent_id, new_parent_id) ==
    reassign_parent_loop(links, old_parent_id, new_parent_id,
                         get_children(links, old_parent_id))

\* reassign_child that forgets the old link when the new one is already there
reassign_child_kept(links, parent_id, old_child_id, new_child_id) ==
    IF child_exists(links, parent_id, new_child_id)
    THEN links
    ELSE child_delete(links, parent_id, old_child_id) \cup {<<parent_id, new_child_id>>}

\* one iteration of the loop of reassign_all_child_links
reassign_child(links, parent_id, old_child_id, new_child_id) ==
    IF child_exists(links, parent_id, new_child_id)
    THEN child_delete(links, parent_id, old_child_id)
    ELSE child_delete(links, parent_id, old_child_id) \cup {<<parent_id, new_child_id>>}

RECURSIVE reassign_child_loop(_, _, _, _)
reassign_child_loop(links, old_child_id, new_child_id, parent_ids) ==
    IF parent_ids = {} THEN links
    ELSE LET p == CHOOSE x \in parent_ids : TRUE
         IN  reassign_child_loop(reassign_child(links, p, old_child_id, new_child_id),
                                 old_child_id, new_child_id, parent_ids \ {p})

\* ChildLinkRepository.reassign_all_child_links
reassign_all_child_links(links, old_child_id, new_child_id) ==
    reassign_child_loop(links, old_child_id, new_child_id,
                        get_parents(links, old_child_id))

\* the canonical orientation of a spouse pair: smaller str(uuid) first
spouse_pair(person1_id, person2_id) ==
    IF person1_id < person2_id THEN <<person1_id, person2_id>>
    ELSE <<person2_id, person1_id>>

\* a create that stores the pair in the order it was given
spouse_create_as_given(links, person1_id, person2_id) == links \cup {<<person1_id, person2_id>>}

\* SpouseLinkRepository.create / exists / get_spouses
spouse_create(links, person1_id, person2_id) == links \cup {spouse_pair(person1_id, person2_id)}
spouse_exists(links, person1_id, person2_id) == spouse_pair(person1_id, person2_id) \in links
get_spouses(links, person_id) ==
    {l[2] : l \in {k \in links : k[1] = person_id}} \cup
    {l[1] : l \in {k \in links : k[2] = person_id}}

\* SpouseLinkRepository._delete_all_for_person
delete_all_for_person(links, person_id) ==
    {k \in links : k[1] # person_id /\ k[2] # person_id}

\* the loop of reassign_spouse_links over the spouses read up front
RECURSIVE reassign_spouse_loop(_, _, _)
reassign_spouse_loop(links, new_person_id, spouse_ids) ==
    IF spouse_ids = {} THEN links
    ELSE LET s == CHOOSE x \in spouse_ids : TRUE
             next == IF s = new_person_id THEN links
                     ELSE IF ~spouse_exists(links, new_person_id, s)
                          THEN spouse_create(links, new_person_id, s)
                          ELSE links
         IN  reassign_spouse_loop(next, new_person_id, spouse_ids \ {s})

\* SpouseLinkRepository.reassign_spouse_links
reassign_spouse_links(links, old_person_id, new_person_id) ==
    delete_all_for_person(
        reassign_spouse_loop(links, new_person_id, get_spouses(links, old_person_id)),
        old_person_id)

----------------------------------------------------------------------------
(* Creation queue *)

\* enqueue that always takes the priority of the latest call
enqueue_overwrite(q, stamp, person_id, priority) ==
    IF \E e \in q : e.person_id = person_id
    THEN LET existing == CHOOSE e \in q : e.person_id = person_id
         IN  (q \ {existing}) \cup {[existing EXCEPT !.priority = priority]}
    ELSE q \cup {[person_id |-> person_id, priority |-> priority, added_at |-> stamp]}

\* QueueRepository.enqueue: the queue after the call
enqueue(q, stamp, person_id, priority) ==
    IF \E e \in q : e.person_id = person_id
    THEN LET existing == CHOOSE e \in q : e.person_id = person_id
         IN  IF priority > existing.priority
             THEN (q \ {existing}) \cup {[existing EXCEPT !.priority = priority]}
             ELSE q
    ELSE q \cup {[person_id |-> person_id, priority |-> priority, added_at |-> stamp]}

\* whether enqueue inserts a row (and so takes a fresh added_at)
enqueue_inserts(q, person_id) == ~ \E e \in q : e.person_id = person_id

\* ORDER BY added_at alone
queue_before_fifo(e1, e2) == e1.added_at < e2.added_at

\* ORDER BY priority DESC, added_at
queue_before(e1, e2) ==
    \/ e1.priority > e2.priority
    \/ e1.priority = e2.priority /\ e1.added_at < e2.added_at

RECURSIVE queue_sorted(_)
queue_sorted(q) ==
    IF q = {} THEN << >>
    ELSE LET first == CHOOSE e \in q : \A o \in q \ {e} : queue_before(e, o)
         IN  <<first>> \o queue_sorted(q \ {first})

\* QueueRepository.dequeue: the entry taken (LIMIT 1), if any
dequeue_entry(q) == Head(queue_sorted(q))

\* a dequeue that reads the first entry and leaves it in the queue
dequeue_peek(q) == q

\* QueueRepository.dequeue: the queue after the call
dequeue(q) == IF q = {} THEN q ELSE q \ {dequeue_entry(q)}

----------------------------------------------------------------------------
(* Merge engine *)

\* a copy that takes every column the merged row has
merge_updates_overwrite(keep_person, merge_person) ==
    LET take(f) == merge_person[f] # NoName
        bio == merge_person.biography
    IN  [maiden_name |-> IF take("maiden_name") THEN merge_person.maiden_name
                         ELSE keep_person.maiden_name,
         birth_place |-> IF take("birth_place") THEN merge_person.birth_place
                         ELSE keep_person.birth_place,
         death_year  |-> IF merge_person.death_year # NoYear
                         THEN merge_person.death_year ELSE keep_person.death_year,
         death_place |-> IF take("death_place") THEN merge_person.death_place
                         ELSE keep_person.death_place,
         biography   |-> IF bio THEN merge_person.biography ELSE keep_person.biography,
         status      |-> IF bio THEN merge_person.status ELSE keep_person.status]

\* the columns _merge_persons copies from the merged row onto the kept row
merge_updates(keep_person, merge_person) ==
    LET copy(f) == keep_person[f] = NoName /\ merge_person[f] # NoName
        bio == ~keep_person.biography /\ merge_person.biography
    IN  [maiden_name |-> IF copy("maiden_name") THEN merge_person.maiden_name
                         ELSE keep_person.maiden_name,
         birth_place |-> IF copy("birth_place") THEN merge_person.birth_place
                         ELSE keep_person.birth_place,
         death_year  |-> IF keep_person.death_year = NoYear /\ merge_person.death_year # NoYear
                         THEN merge_person.death_year ELSE keep_person.death_year,
         death_place |-> IF copy("death_place") THEN merge_person.death_place
                         ELSE keep_person.death_place,
         biography   |-> IF bio THEN merge_person.biography ELSE keep_person.biography,
         status      |-> IF bio THEN merge_person.status ELSE keep_person.status]

\* GenealogyService._merge_persons on the session's store
merge_persons(st, keep_id, merge_id) ==
    IF keep_id \notin DOMAIN st.persons \/ merge_id \notin DOMAIN st.persons
    THEN st
    ELSE LET l1 == reassign_all_parent_links(st.childLinks, merge_id, keep_id)
             l2 == reassign_all_child_links(l1, merge_id, keep_id)
             s1 == reassign_spouse_links(st.spouseLinks, merge_id, keep_id)
             p1 == person_update(st.persons, keep_id,
                                 merge_updates(st.persons[keep_id], st.persons[merge_id]))
         IN  [persons |-> person_delete(p1, merge_id),
              childLinks |-> l2,
              spouseLinks |-> s1]

\* _merge_persons after the three reassign calls and before the update and
\* the delete
reassign_links(st, keep_id, merge_id) ==
    [persons |-> st.persons,
     childLinks |-> reassign_all_child_links(
                        reassign_all_parent_links(st.childLinks, merge_id, keep_id),
                        merge_id, keep_id),
     spouseLinks |-> reassign_spouse_links(st.spouseLinks, merge_id, keep_id)]

\* f"{given_name} {surname}" as a raw name
full_name(row) == <<row.given_name, row.surname>>

\* the duplicate test of _check_and_merge_duplicate_parents for one existing parent
is_duplicate_parent(st, existing_parent_id, new_parent_id) ==
    /\ existing_parent_id \in DOMAIN st.persons
    /\ new_parent_id \in DOMAIN st.persons
    /\ LET existing_parent == st.persons[existing_parent_id]
           new_parent == st.persons[new_parent_id]
           existing_parsed == parse_name(full_name(existing_parent))
           new_parsed == parse_name(full_name(new_parent))
           spouse_has(pid, surname) ==
               \E sp \in get_spouses(st.spouseLinks, pid) :
                   /\ sp \in DOMAIN st.persons
                   /\ Lower(st.persons[sp].surname) = Lower(surname)
           surnames_match ==
               \/ Lower(existing_parsed.surname) = Lower(new_parsed.surname)
               \/ /\ existing_parent.maiden_name # NoName
                  /\ Lower(existing_parent.maiden_name) = Lower(new_parsed.surname)
               \/ /\ new_parent.maiden_name # NoName
                  /\ Lower(new_parent.maiden_name) = Lower(existing_parsed.surname)
               \/ spouse_has(existing_parent_id, new_parsed.surname)
               \/ spouse_has(new_parent_id, existing_parsed.surname)
           birth_year_match ==
               \/ existing_parent.birth_year = NoYear
               \/ new_parent.birth_year = NoYear
               \/ Abs(existing_parent.birth_year - new_parent.birth_year) <= DupYearWindow
       IN  /\ existing_parent.gender = new_parent.gender
           /\ Lower(existing_parsed.given_name) = Lower(new_parsed.given_name)
           /\ surnames_match
           /\ birth_year_match

\* the existing parent surviving every merge
keep_of_existing(st, existing_parent_id, new_parent_id) == existing_parent_id

\* which record survives the merge of an existing parent and the candidate
keep_of(st, existing_parent_id, new_parent_id) ==
    IF st.persons[new_parent_id].biography /\ ~st.persons[existing_parent_id].biography
    THEN new_parent_id
    ELSE existing_parent_id

\* a reconcile step that merges with some existing parent when none passes
\* the duplicate test
check_and_merge_some_parent(st, child_id, new_parent_id, pick) ==
    IF \/ Cardinality(get_parents(st.childLinks, child_id)) < 2
       \/ new_parent_id \notin DOMAIN st.persons
    THEN [st |-> st, parent_id |-> new_parent_id, merged |-> FALSE,
          keep |-> NoId, drop |-> NoId]
    ELSE LET existing == IF pick = NoId
                         THEN CHOOSE ep \in get_parents(st.childLinks, child_id) : TRUE
                         ELSE pick
             keep == keep_of(st, existing, new_parent_id)
             drop == IF keep = existing THEN new_parent_id ELSE existing
         IN  [st |-> merge_persons(st, keep, drop), parent_id |-> keep,
              merged |-> TRUE, keep |-> keep, drop |-> drop]

\* GenealogyService._check_and_merge_duplicate_parents.  pick is the existing
\* parent the loop reaches first among those passing the test (the order of
\* get_parents is the database's), NoId when none passes.
check_and_merge_duplicate_parents(st, child_id, new_parent_id, pick) ==
    IF \/ Cardinality(get_parents(st.childLinks, child_id)) < 2
       \/ new_parent_id \notin DOMAIN st.persons
       \/ pick = NoId
    THEN [st |-> st, parent_id |-> new_parent_id, merged |-> FALSE,
          keep |-> NoId, drop |-> NoId]
    ELSE LET keep == keep_of(st, pick, new_parent_id)
             drop == IF keep = pick THEN new_parent_id ELSE pick
         IN  [st |-> merge_persons(st, keep, drop), parent_id |-> keep,
              merged |-> TRUE, keep |-> keep, drop |-> drop]

\* the existing parents of the child that pass the duplicate test
duplicate_parents(st, child_id, new_parent_id) ==
    {ep \in get_parents(st.childLinks, child_id) :
        is_duplicate_parent(st, ep, new_parent_id)}

----------------------------------------------------------------------------
(* Validator: validate_extracted_data.  The facts are the years the rules  *)
(* read: the subject's birth and death year and the approximate birth year *)
(* of each parent, child and spouse and the year of each event, in the     *)
(* order of the lists.  A message is a record naming its rule.             *)

\* ValidationResult whose validity also asks for no warning
validation_result_strict(errors, warnings) ==
    [is_valid |-> Len(errors) = 0 /\ Len(warnings) = 0,
     errors |-> errors, warnings |-> warnings]

\* ValidationResult(is_valid=len(errors) == 0, errors=errors, warnings=warnings)
validation_result(errors, warnings) ==
    [is_valid |-> Len(errors) = 0, errors |-> errors, warnings |-> warnings]

\* nothing appended
NoMessages == [errors |-> << >>, warnings |-> << >>]

\* the lifespan rule
validate_lifespan(birth_year, death_year) ==
    IF birth_year # NoYear /\ death_year # NoYear
    THEN LET lifespan == death_year - birth_year
         IN  IF lifespan < 0
             THEN [errors |-> << [rule |-> "death_before_birth", year |-> death_year] >>,
                   warnings |-> << >>]
             ELSE IF lifespan > MaxLifespan
             THEN [errors |-> << >>,
                   warnings |-> << [rule |-> "long_lifespan", year |-> lifespan] >>]
             ELSE IF lifespan < 1
             THEN [errors |-> << >>,
                   warnings |-> << [rule |-> "short_lifespan", year |-> lifespan] >>]
             ELSE NoMessages
    ELSE NoMessages

\* _validate_parent_child with no lower bound on the parent's age
validate_parent_child_no_minimum(parent_birth_year, child_birth_year, parent_death_year) ==
    IF parent_birth_year = NoYear \/ child_birth_year = NoYear
    THEN NoMessages
    ELSE LET parent_age_at_birth == child_birth_year - parent_birth_year
         IN  [errors |->
                 (IF parent_death_year # NoYear
                     /\ child_birth_year > parent_death_year + PosthumousAllowance
                  THEN << [rule |-> "born_after_parent_death", year |-> child_birth_year] >>
                  ELSE << >>),
              warnings |->
                 (IF parent_age_at_birth > MaxParentAge + OlderFatherAllowance
                  THEN << [rule |-> "parent_very_old", year |-> parent_age_at_birth] >>
                  ELSE << >>)]

\* Validator._validate_parent_child
validate_parent_child(parent_birth_year, child_birth_year, parent_death_year) ==
    IF parent_birth_year = NoYear \/ child_birth_year = NoYear
    THEN NoMessages
    ELSE LET parent_age_at_birth == child_birth_year - parent_birth_year
         IN  [errors |->
                 (IF parent_age_at_birth < MinParentAge
                  THEN << [rule |-> "parent_too_young", year |-> parent_age_at_birth] >>
                  ELSE << >>)
                 \o
                 (IF parent_death_year # NoYear
                     /\ child_birth_year > parent_death_year + PosthumousAllowance
                  THEN << [rule |-> "born_after_parent_death", year |-> child_birth_year] >>
                  ELSE << >>),
              warnings |->
                 (IF parent_age_at_birth >= MinParentAge
                     /\ parent_age_at_birth > MaxParentAge + OlderFatherAllowance
                  THEN << [rule |-> "parent_very_old", year |-> parent_age_at_birth] >>
                  ELSE << >>)]

\* the loop over data.parents
RECURSIVE validate_parents(_, _)
validate_parents(parents, birth_year) ==
    IF parents = << >> THEN NoMessages
    ELSE LET m == validate_parent_child(Head(parents), birth_year, NoYear)
             rest == validate_parents(Tail(parents), birth_year)
         IN  [errors |-> m.errors \o rest.errors, warnings |-> m.warnings \o rest.warnings]

\* the loop over data.children
RECURSIVE validate_children(_, _, _)
validate_children(children, birth_year, death_year) ==
    IF children = << >> THEN NoMessages
    ELSE LET m == validate_parent_child(birth_year, Head(children), death_year)
             rest == validate_children(Tail(children), birth_year, death_year)
         IN  [errors |-> m.errors \o rest.errors, warnings |-> m.warnings \o rest.warnings]

\* the loop over data.spouses
RECURSIVE validate_spouses(_, _)
validate_spouses(spouses, birth_year) ==
    IF spouses = << >> THEN NoMessages
    ELSE LET rest == validate_spouses(Tail(spouses), birth_year)
         IN  IF /\ birth_year # NoYear
                /\ Head(spouses) # NoYear
                /\ Abs(birth_year - Head(spouses)) > SpouseAgeGap
             THEN [errors |-> rest.errors,
                   warnings |-> << [rule |-> "spouse_age_gap",
                                    year |-> Abs(birth_year - Head(spouses))] >>
                                \o rest.warnings]
             ELSE rest

\* the body of the loop over data.events
validate_event(event_year, birth_year, death_year) ==
    IF event_year # NoYear /\ birth_year # NoYear
    THEN (IF event_year < birth_year
          THEN << [rule |-> "event_before_birth", year |-> event_year] >>
          ELSE << >>)
         \o
         (IF death_year # NoYear /\ event_year > death_year
          THEN << [rule |-> "event_after_death", year |-> event_year] >>
          ELSE << >>)
    ELSE << >>

\* the loop over data.events
RECURSIVE validate_events(_, _, _)
validate_events(events, birth_year, death_year) ==
    IF events = << >> THEN << >>
    ELSE validate_event(Head(events), birth_year, death_year)
         \o validate_events(Tail(events), birth_year, death_year)

\* Validator.validate_extracted_data
validate_extracted_data(data) ==
    LET life == validate_lifespan(data.birth_year, data.death_year)
        par == validate_parents(data.parents, data.birth_year)
        chi == validate_children(data.children, data.birth_year, data.death_year)
        spo == validate_spouses(data.spouses, data.birth_year)
        eve == validate_events(data.events, data.birth_year, data.death_year)
    IN  validation_result(
            life.errors \o par.errors \o chi.errors \o eve,
            life.warnings \o par.warnings \o chi.warnings \o spo.warnings)

\* validate_person_reference without the future-year rule
validate_name_only(reference) == reference.name # << >>

\* validate_person_reference with a birth year under the floor among the errors
validate_rejects_old_year(reference) ==
    /\ reference.name # << >>
    /\ ~(reference.year # NoYear /\ reference.year > CurrentYear)
    /\ ~(reference.year # NoYear /\ reference.year < BirthYearFloor)

\* Validator.validate_person_reference: the errors of the result
person_reference_errors(reference) ==
    (IF reference.name = << >>
     THEN << [rule |-> "empty_name", year |-> NoYear] >>
     ELSE << >>)
    \o
    (IF reference.year # NoYear /\ reference.year > CurrentYear
     THEN << [rule |-> "future_birth_year", year |-> reference.year] >>
     ELSE << >>)

\* Validator.validate_person_reference: the warnings of the result
person_reference_warnings(reference) ==
    IF reference.year # NoYear /\ reference.year < BirthYearFloor
    THEN << [rule |-> "old_birth_year", year |-> reference.year] >>
    ELSE << >>

\* Validator.validate_person_reference: the result
person_reference_result(reference) ==
    validation_result(person_reference_errors(reference),
                      person_reference_warnings(reference))

\* Validator.validate_person_reference: is_valid
validate_person_reference(reference) == person_reference_result(reference).is_valid

----------------------------------------------------------------------------
(* Reference resolver *)

\* the birth-year filter of both searches: strftime('%Y', birth_date)
\* BETWEEN year - w AND year + w; a NULL birth_date never passes
year_between(row, birth_year, w) ==
    birth_year # NoYear =>
        /\ row.birth_year # NoYear
        /\ birth_year - w <= row.birth_year
        /\ row.birth_year <= birth_year + w

\* PersonRepository.search_similar
search_similar(ps, given_name, surname, birth_year, maiden_name) ==
    {id \in DOMAIN ps :
        /\ \/ ps[id].surname = surname
           \/ ps[id].maiden_name = surname
           \/ maiden_name # NoName /\ ps[id].surname = maiden_name
           \/ maiden_name # NoName /\ ps[id].maiden_name = maiden_name
        /\ ILikeContains(ps[id].given_name, given_name)
        /\ year_between(ps[id], birth_year, 3)}

\* PersonRepository.search_by_given_name_and_birth_year
search_by_given_name_and_birth_year(ps, given_name, birth_year) ==
    {id \in DOMAIN ps :
        /\ ILikeContains(ps[id].given_name, given_name)
        /\ year_between(ps[id], birth_year, 5)}

\* a rule that lifts every base score under the threshold
spouse_bump_always(base_score, given_and_spouse_match) ==
    IF base_score < AcceptThreshold
    THEN Max(base_score, SpouseBump)
    ELSE base_score

\* the spouse-surname rule: a base score under the threshold is lifted when
\* the given names match and a spouse of the candidate bears the surname
spouse_bump(base_score, given_and_spouse_match) ==
    IF base_score < AcceptThreshold /\ given_and_spouse_match
    THEN Max(base_score, SpouseBump)
    ELSE base_score

\* whether some spouse of the candidate bears the surname
spouse_surname_match(st, id, surname) ==
    \E sp \in get_spouses(st.spouseLinks, id) :
        /\ sp \in DOMAIN st.persons
        /\ Lower(st.persons[sp].surname) = Lower(surname)

\* the score of one candidate, spouse-surname check included
candidate_score(st, reference, id) ==
    spouse_bump(
        heuristic_match_score(reference.name, reference.year,
                              full_name(st.persons[id]), st.persons[id].birth_year),
        /\ Lower(st.persons[id].given_name) = Lower(parse_name(reference.name).given_name)
        /\ spouse_surname_match(st, id, parse_name(reference.name).surname))

\* the candidates of both searches with their scores
candidate_scores(st, reference) ==
    LET parsed == parse_name(reference.name)
        found == search_similar(st.persons, parsed.given_name, parsed.surname,
                                reference.year, parsed.maiden_name)
                 \cup search_by_given_name_and_birth_year(st.persons, parsed.given_name,
                                                          reference.year)
    IN  [id \in found |-> candidate_score(st, reference, id)]

\* good_candidates: the candidates scoring at least 0.5
good_candidates(scores) == {id \in DOMAIN scores : scores[id] >= AcceptThreshold}

\* good_candidates.sort(key=score, reverse=True); the sort is stable and the
\* searches return rows in insertion order
RECURSIVE sorted_candidates(_, _)
sorted_candidates(scores, ids) ==
    IF ids = {} THEN << >>
    ELSE LET best == CHOOSE c \in ids : \A o \in ids :
                        \/ scores[c] > scores[o]
                        \/ scores[c] = scores[o] /\ c <= o
         IN  <<best>> \o sorted_candidates(scores, ids \ {best})

\* the whole sorted list handed over, without the [:5]
presented_candidates_uncut(scores) ==
    sorted_candidates(scores, good_candidates(scores))

\* good_candidates[:5], the summaries handed to the Dedup Oracle
presented_candidates(scores) ==
    LET srt == sorted_candidates(scores, good_candidates(scores))
    IN  SubSeq(srt, 1, Min(Len(srt), MaxCandidates))

\* what the Dedup Oracle may answer: DedupResult.is_duplicate and
\* matched_person_id, a string that is a well-formed UUID (of a candidate it
\* was shown, or one it made up), a truncated one, or None
OracleAnswers(ids) ==
    {[is_duplicate |-> FALSE, form |-> "none", id |-> NoId]}
    \cup {[is_duplicate |-> TRUE, form |-> "none", id |-> NoId]}
    \cup {[is_duplicate |-> TRUE, form |-> "truncated", id |-> GhostId]}
    \cup {[is_duplicate |-> TRUE, form |-> "uuid", id |-> i] : i \in ids \cup {GhostId}}

NotAsked == [is_duplicate |-> FALSE, form |-> "notasked", id |-> NoId]

\* UUID() that accepts a truncated identifier
parse_uuid_lenient(answer) ==
    IF answer.form \in {"uuid", "truncated"} THEN answer.id ELSE NoId

\* UUID(matched_person_id): the id, or NoId when ValueError is raised
parse_uuid(answer) == IF answer.form = "uuid" THEN answer.id ELSE NoId

\* the id resolve returns for a confirmed duplicate, NoId when it falls
\* through to creating a record
matched_id_of(good, answer) ==
    IF /\ good # {}
       /\ answer.is_duplicate
       /\ answer.form # "none"
    THEN parse_uuid(answer)
    ELSE NoId

\* the Pending row resolve creates
pending_row(reference, generation) ==
    LET parsed == parse_name(reference.name)
    IN  [status |-> "pending",
         given_name |-> parsed.given_name,
         surname |-> parsed.surname,
         maiden_name |-> parsed.maiden_name,
         gender |-> reference.gender,
         birth_year |-> reference.year,
         birth_place |-> NoName,
         death_year |-> NoYear,
         death_place |-> NoName,
         biography |-> FALSE,
         generation |-> generation]

\* the end of _resolve_person_reference: the matched id is returned, or a
\* Pending row is created under new_id
resolve_outcome(st, reference, generation, matched_id, new_id) ==
    IF matched_id # NoId
    THEN [persons |-> st.persons, result |-> matched_id, created |-> FALSE]
    ELSE [persons |-> person_create(st.persons, new_id,
                                    pending_row(reference, generation)),
          result |-> new_id, created |-> TRUE]

\* GenealogyService._resolve_person_reference: the persons table afterwards
\* and the id returned (NoId for None); new_id is what uuid4 hands out
resolve_person_reference(st, reference, generation, answer, new_id) ==
    IF ~validate_person_reference(reference)
    THEN [persons |-> st.persons, result |-> NoId, created |-> FALSE]
    ELSE resolve_outcome(st, reference, generation,
             matched_id_of(good_candidates(candidate_scores(st, reference)), answer),
             new_id)

\* RelationshipType
RelationshipTypes ==
    {"parent", "child", "spouse", "sibling", "grandparent", "grandchild",
     "uncle", "aunt", "cousin", "niece", "nephew", "other"}

\* an inverse map that sends uncle to niece and aunt to nephew
inverse_relationship_crossed(relationship) ==
    CASE relationship = "parent" -> "child"
      [] relationship = "child" -> "parent"
      [] relationship = "spouse" -> "spouse"
      [] relationship = "sibling" -> "sibling"
      [] relationship = "grandparent" -> "grandchild"
      [] relationship = "grandchild" -> "grandparent"
      [] relationship = "uncle" -> "niece"
      [] relationship = "aunt" -> "nephew"
      [] relationship = "cousin" -> "cousin"
      [] relationship = "niece" -> "aunt"
      [] relationship = "nephew" -> "uncle"
      [] relationship = "other" -> "other"
      [] OTHER -> "other"

\* GenealogyService._get_inverse_relationship: inverse_map.get(.., OTHER)
get_inverse_relationship(relationship) ==
    CASE relationship = "parent" -> "child"
      [] relationship = "child" -> "parent"
      [] relationship = "spouse" -> "spouse"
      [] relationship = "sibling" -> "sibling"
      [] relationship = "grandparent" -> "grandchild"
      [] relationship = "grandchild" -> "grandparent"
      [] relationship = "uncle" -> "nephew"
      [] relationship = "aunt" -> "niece"
      [] relationship = "cousin" -> "cousin"
      [] relationship = "niece" -> "aunt"
      [] relationship = "nephew" -> "uncle"
      [] relationship = "other" -> "other"
      [] OTHER -> "other"

----------------------------------------------------------------------------
(* What the external collaborators may hand to the pipeline *)

\* references the Fact Extractor may return, each with the list of
\* ExtractedData it stands in (kind), name, gender, approximate_birth_year
RefMenu ==
    { [kind |-> "parent", name |-> <<"Mary", "Smith">>, gender |-> "female", year |-> 1900],
      [kind |-> "parent", name |-> <<"John", "Smith">>, gender |-> "male", year |-> NoYear],
      [kind |-> "parent", name |-> << >>, gender |-> "male", year |-> NoYear],
      [kind |-> "child", name |-> <<"Mary", "Smith">>, gender |-> "female", year |-> 1900],
      [kind |-> "child", name |-> <<"Mary", "Jones">>, gender |-> "female", year |-> 2999],
      [kind |-> "spouse", name |-> <<"John", "Smith">>, gender |-> "male", year |-> NoYear],
      [kind |-> "sibling", name |-> <<"Mary", "Jones">>, gender |-> "female", year |-> 1400] }

\* the subject's own facts the Fact Extractor may return for a stored row
ExtractMenu(row) ==
    { [given_name |-> NoName, surname |-> NoName, maiden_name |-> NoName,
       gender |-> row.gender, birth_year |-> NoYear, birth_place |-> "Boston",
       death_year |-> NoYear, death_place |-> NoName] }

\* the facts extracted for a seed, name fallbacks of create_seed_context applied
SeedMenu ==
    { [given_name |-> "Mary", surname |-> "Smith", maiden_name |-> NoName,
       gender |-> "female", birth_year |-> 1900, birth_place |-> NoName,
       death_year |-> NoYear, death_place |-> NoName] }

\* the order of the loops of _process_references
Rank(kind) ==
    CASE kind = "parent" -> 1
      [] kind = "child" -> 2
      [] kind = "spouse" -> 3
      [] kind = "sibling" -> 4
      [] kind = "other" -> 5

\* every loop passing the subject's own generation
target_generation_same(kind, generation) == generation

\* the generation _process_references passes to resolve
target_generation(kind, generation) ==
    CASE kind = "parent" -> generation - 1
      [] kind = "child" -> generation + 1
      [] OTHER -> generation

----------------------------------------------------------------------------
(* State *)

Store == [persons |-> persons, childLinks |-> childLinks, spouseLinks |-> spouseLinks]

Snapshot == [persons |-> persons, childLinks |-> childLinks,
             spouseLinks |-> spouseLinks, queue |-> queue]

EmptyFn == [i \in {} |-> 0]

EmptySnapshot == [persons |-> EmptyFn, childLinks |-> {}, spouseLinks |-> {}, queue |-> {}]

NoSubject == [id |-> NoId, generation |-> 0, biography |-> FALSE]

NoRef == [kind |-> "none", name |-> << >>, gender |-> "unknown", year |-> NoYear]

NoCur == [ref |-> NoRef, generation |-> 0, asked |-> FALSE, answer |-> NotAsked,
          presented |-> << >>, result |-> NoId, created |-> FALSE,
          shared |-> [called |-> FALSE, existing |-> NoId, relationship |-> "none"]]

NoRec == [kind |-> "none", child |-> NoId, candidate |-> NoId, parents_before |-> {},
          dups |-> {}, reconciled |-> FALSE, merged |-> FALSE, keep |-> NoId,
          drop |-> NoId, parent |-> NoId, created |-> FALSE,
          child_before |-> {}, spouse_before |-> {}]

NoQlog == [op |-> "none", person_id |-> NoId, priority |-> 0, added_at |-> 0]

\* a database init_db has just created
NewDatabase ==
    [persons |-> EmptyFn, childLinks |-> {}, spouseLinks |-> {}, queue |-> {},
     clock |-> 1, nextId |-> 1]

\* the row of a person a cycle has completed
complete_row(given_name, surname, gender, birth_year, birth_place, generation) ==
    [status |-> "complete", given_name |-> given_name, surname |-> surname,
     maiden_name |-> NoName, gender |-> gender, birth_year |-> birth_year,
     birth_place |-> birth_place, death_year |-> NoYear, death_place |-> NoName,
     biography |-> TRUE, generation |-> generation]

\* a database two earlier cycles left behind: the seed 1 named a parent 2
\* and a child 3, both queued; the parent 2, processed next, named a child
\* the Dedup Oracle matched to 3, which now waits in the queue with the two
\* parents 1 and 2
FamilyDatabase ==
    [persons |->
        (1 :> complete_row("Mary", "Smith", "female", 1900, NoName, 0)) @@
        (2 :> complete_row("Mary", "Smith", "female", 1900, "Boston", -1)) @@
        (3 :> [pending_row([kind |-> "child", name |-> <<"Mary", "Smith">>,
                            gender |-> "female", year |-> 1900], 1)
                  EXCEPT !.status = "queued"]),
     childLinks |-> {<<2, 1>>, <<1, 3>>, <<2, 3>>},
     spouseLinks |-> {},
     queue |-> {[person_id |-> 3, priority |-> LinkedPriority, added_at |-> 2]},
     clock |-> 3, nextId |-> 4]

\* the database one more cycle leaves behind: person 3, processed from the
\* queue, named a child for whom person 4 was created and queued
DescendantDatabase ==
    [persons |->
        (1 :> complete_row("Mary", "Smith", "female", 1900, NoName, 0)) @@
        (2 :> complete_row("Mary", "Smith", "female", 1900, "Boston", -1)) @@
        (3 :> complete_row("Mary", "Smith", "female", 1900, "Boston", 1)) @@
        (4 :> [pending_row([kind |-> "child", name |-> <<"Mary", "Smith">>,
                            gender |-> "female", year |-> 1900], 2)
                  EXCEPT !.status = "queued"]),
     childLinks |-> {<<2, 1>>, <<1, 3>>, <<2, 3>>, <<3, 4>>},
     spouseLinks |-> {},
     queue |-> {[person_id |-> 4, priority |-> LinkedPriority, added_at |-> 3]},
     clock |-> 4, nextId |-> 5]

\* the database a seed cycle leaves behind: the seed 1 named two parents, 2
\* and 3, both created and queued, and a third the Dedup Oracle matched to
\* the seed itself; the reconcile step merged 3 into 1 and the entry of 3
\* stayed in the queue
MergedDatabase ==
    [persons |->
        (1 :> complete_row("Mary", "Smith", "female", 1900, NoName, 0)) @@
        (2 :> [pending_row([kind |-> "parent", name |-> <<"Mary", "Smith">>,
                            gender |-> "female", year |-> 1900], -1)
                  EXCEPT !.status = "queued"]),
     childLinks |-> {<<1, 1>>, <<2, 1>>},
     spouseLinks |-> {},
     queue |-> {[person_id |-> 2, priority |-> LinkedPriority, added_at |-> 1],
                [person_id |-> 3, priority |-> LinkedPriority, added_at |-> 2]},
     clock |-> 3, nextId |-> 4]

\* the databases a run may open
Databases == {NewDatabase, FamilyDatabase, DescendantDatabase, MergedDatabase}

\* no facts
NoFacts == [birth_year |-> NoYear, death_year |-> NoYear, parents |-> << >>,
            children |-> << >>, spouses |-> << >>, events |-> << >>]

\* no exception was raised
NoTorn == [kind |-> "none",
           st |-> [persons |-> EmptyFn, childLinks |-> {}, spouseLinks |-> {}]]

\* no wrapped call is under way and no function is called on its own
SideIdle ==
    /\ rpc = "idle"
    /\ max_retries = 0
    /\ retry_attempt = 0
    /\ calls = << >>
    /\ last_exception = 0
    /\ raised = 0
    /\ delays = << >>
    /\ arg = << >>
    /\ ret = << >>

\* RateLimiter.__init__ at time 0, one token available, the lock free, and
\* no task calling acquire; a token is Interval units, one unit refilled
\* per tick of the clock
LimiterIdle ==
    /\ limiter = [tokens |-> Interval, last_update |-> 0, lock |-> 0,
                  last_wait_time |-> 0]
    /\ loop = [now |-> 0, at |-> << >>, wake |-> << >>, grants |-> << >>]

\* the generate command has not started its loop
DriverIdle ==
    /\ iteration = 0
    /\ torn = NoTorn
    /\ SideIdle
    /\ LimiterIdle

\* _validate_and_correct is not running
ValidatorIdle ==
    /\ vpc = "idle"
    /\ extracted = NoFacts
    /\ current_data = NoFacts
    /\ validation = validation_result(<< >>, << >>)
    /\ attempt = 0
    /\ corrections = << >>

Init ==
    /\ ValidatorIdle
    /\ DriverIdle
    /\ \E db \in Databases :
        /\ persons = db.persons
        /\ childLinks = db.childLinks
        /\ spouseLinks = db.spouseLinks
        /\ queue = db.queue
        /\ clock = db.clock
        /\ nextId = db.nextId
        /\ committed = [persons |-> db.persons, childLinks |-> db.childLinks,
                        spouseLinks |-> db.spouseLinks, queue |-> db.queue]
    /\ pc = "idle"
    /\ subject = NoSubject
    /\ phase = 1
    /\ refCount = 0
    /\ sched = "none"
    /\ cur = NoCur
    /\ rec = NoRec
    /\ qlog = NoQlog

----------------------------------------------------------------------------
(* Generation scheduler: process_next *)

\* a query that returns every person that is not Queued
pending_ids_unqueued(ps) == {id \in DOMAIN ps : ps[id].status # "queued"}

\* PersonRepository.get_by_status(PENDING)
pending_ids(ps) == {id \in DOMAIN ps : ps[id].status = "pending"}

\* process_next that looks at the Pending persons before the queue
next_source_pending_first(q, ps) ==
    IF pending_ids(ps) # {} THEN "pending"
    ELSE IF q # {} THEN "queue"
    ELSE "seed"

\* where process_next takes its subject from
next_source(q, ps) ==
    IF q # {} THEN "queue"
    ELSE IF pending_ids(ps) # {} THEN "pending"
    ELSE "seed"

\* no call of process_next is under way
AtRest == pc \in {"idle", "failed"}

\* the Person object _process_person builds from the row it read (to_domain)
subject_of(ps, id) ==
    [id |-> id, generation |-> ps[id].generation, biography |-> ps[id].biography]

\* process_next when dequeue returns an id: the entry is consumed; a row
\* that cannot be loaded ends the call with None, otherwise the row is set
\* to Processing and the session commits
ProcessNextQueue ==
    /\ AtRest
    /\ iteration < MaxCount
    /\ next_source(queue, persons) = "queue"
    /\ LET person_id == dequeue_entry(queue).person_id
           q1 == dequeue(queue)
       IN  IF person_id \notin DOMAIN persons
           THEN /\ queue' = q1
                /\ persons' = persons
                /\ committed' = [Snapshot EXCEPT !.queue = q1]
                /\ pc' = "idle"
                /\ subject' = NoSubject
           ELSE /\ queue' = q1
                /\ persons' = person_update(persons, person_id, [status |-> "processing"])
                /\ committed' = [Snapshot EXCEPT !.queue = q1, !.persons = persons']
                /\ pc' = "generate"
                /\ subject' = subject_of(persons', person_id)
    /\ sched' = "queue"
    /\ UNCHANGED <<childLinks, spouseLinks, clock, nextId, phase, refCount, cur, rec, qlog>>
    /\ UNCHANGED validatorVars
    /\ UNCHANGED sideVars
    /\ iteration' = iteration + 1
    /\ UNCHANGED torn

\* process_next when the queue is empty and some person is Pending:
\* _forest_fire_sample gives every Pending person a positive weight
ProcessNextPending ==
    /\ AtRest
    /\ iteration < MaxCount
    /\ next_source(queue, persons) = "pending"
    /\ \E person_id \in pending_ids(persons) :
        /\ persons' = person_update(persons, person_id, [status |-> "processing"])
        /\ committed' = [Snapshot EXCEPT !.persons = persons']
        /\ subject' = subject_of(persons', person_id)
    /\ sched' = "pending"
    /\ pc' = "generate"
    /\ UNCHANGED <<childLinks, spouseLinks, queue, clock, nextId, phase, refCount,
                   cur, rec, qlog>>
    /\ UNCHANGED validatorVars
    /\ UNCHANGED sideVars
    /\ iteration' = iteration + 1
    /\ UNCHANGED torn

\* process_next when the queue is empty and nobody is Pending:
\* _create_seed_person up to the call of _process_references
CreateSeed ==
    /\ AtRest
    /\ iteration < MaxCount
    /\ next_source(queue, persons) = "seed"
    /\ nextId <= MaxPersons
    /\ \E ex \in SeedMenu :
        persons' = person_create(persons, nextId,
            [status |-> "complete",
             given_name |-> ex.given_name,
             surname |-> ex.surname,
             maiden_name |-> ex.maiden_name,
             gender |-> ex.gender,
             birth_year |-> ex.birth_year,
             birth_place |-> ex.birth_place,
             death_year |-> ex.death_year,
             death_place |-> ex.death_place,
             biography |-> TRUE,
             generation |-> 0])
    /\ subject' = [id |-> nextId, generation |-> 0, biography |-> TRUE]
    /\ sched' = "seed"
    /\ nextId' = nextId + 1
    /\ pc' = "refs"
    /\ phase' = 1
    /\ UNCHANGED <<childLinks, spouseLinks, queue, clock, committed, refCount,
                   cur, rec, qlog>>
    /\ UNCHANGED validatorVars
    /\ UNCHANGED sideVars
    /\ iteration' = iteration + 1
    /\ UNCHANGED torn

\* an update that saves the narrative and leaves the status as it is
GenerateKeepsStatus ==
    /\ pc = "generate"
    /\ \E ex \in ExtractMenu(persons[subject.id]) :
        LET row == persons[subject.id]
            or(a, b) == IF a # NoName THEN a ELSE b
        IN  persons' = person_update(persons, subject.id,
                [given_name |-> or(ex.given_name, row.given_name),
                 surname |-> or(ex.surname, row.surname),
                 maiden_name |-> or(ex.maiden_name, row.maiden_name),
                 gender |-> ex.gender,
                 birth_year |-> IF ex.birth_year # NoYear THEN ex.birth_year
                                ELSE row.birth_year,
                 birth_place |-> or(ex.birth_place, row.birth_place),
                 death_year |-> ex.death_year,
                 death_place |-> ex.death_place,
                 biography |-> TRUE])
    /\ pc' = "refs"
    /\ phase' = 1
    /\ UNCHANGED <<childLinks, spouseLinks, queue, clock, nextId, committed,
                   subject, refCount, sched, cur, rec, qlog>>
    /\ UNCHANGED validatorVars
    /\ UNCHANGED sideVars
    /\ UNCHANGED driverVars

\* _process_person from the narrative to the update that sets Complete
Generate ==
    /\ pc = "generate"
    /\ \E ex \in ExtractMenu(persons[subject.id]) :
        LET row == persons[subject.id]
            or(a, b) == IF a # NoName THEN a ELSE b
        IN  persons' = person_update(persons, subject.id,
                [status |-> "complete",
                 given_name |-> or(ex.given_name, row.given_name),
                 surname |-> or(ex.surname, row.surname),
                 maiden_name |-> or(ex.maiden_name, row.maiden_name),
                 gender |-> ex.gender,
                 birth_year |-> IF ex.birth_year # NoYear THEN ex.birth_year
                                ELSE row.birth_year,
                 birth_place |-> or(ex.birth_place, row.birth_place),
                 death_year |-> ex.death_year,
                 death_place |-> ex.death_place,
                 biography |-> TRUE])
    /\ pc' = "refs"
    /\ phase' = 1
    /\ UNCHANGED <<childLinks, spouseLinks, queue, clock, nextId, committed,
                   subject, refCount, sched, cur, rec, qlog>>
    /\ UNCHANGED validatorVars
    /\ UNCHANGED sideVars
    /\ UNCHANGED driverVars

----------------------------------------------------------------------------
(* Orchestrator: _process_references, one reference at a time *)

\* the tail of the loops without the test of the status
queue_whatever_status(ps, q, stamp, person_id) ==
    IF person_id \in DOMAIN ps
    THEN [persons |-> person_update(ps, person_id, [status |-> "queued"]),
          queue |-> enqueue(q, stamp, person_id, LinkedPriority),
          clock |-> IF enqueue_inserts(q, person_id) THEN stamp + 1 ELSE stamp]
    ELSE [persons |-> ps, queue |-> q, clock |-> stamp]

\* the tail of the parent and child loops: queue the linked person if Pending
queue_if_pending(ps, q, stamp, person_id) ==
    IF person_id \in DOMAIN ps /\ ps[person_id].status = "pending"
    THEN [persons |-> person_update(ps, person_id, [status |-> "queued"]),
          queue |-> enqueue(q, stamp, person_id, LinkedPriority),
          clock |-> IF enqueue_inserts(q, person_id) THEN stamp + 1 ELSE stamp]
    ELSE [persons |-> ps, queue |-> q, clock |-> stamp]

\* the call of _resolve_person_reference at the head of each loop body
ResolveReference ==
    /\ pc = "refs"
    /\ refCount < MaxRefs
    /\ \E reference \in RefMenu :
        /\ Rank(reference.kind) >= phase
        /\ \E scores \in {candidate_scores(Store, reference)} :
           \E asked \in {validate_person_reference(reference)
                         /\ good_candidates(scores) # {}} :
           \E shown \in {IF asked THEN presented_candidates(scores) ELSE << >>} :
           \E answer \in (IF asked THEN OracleAnswers(SeqToSet(shown)) ELSE {NotAsked}) :
           \E r \in {resolve_person_reference(Store, reference,
                        target_generation(reference.kind, subject.generation),
                        answer, nextId)} :
                /\ r.created => nextId <= MaxPersons
                /\ persons' = r.persons
                /\ nextId' = IF r.created THEN nextId + 1 ELSE nextId
                /\ cur' = [ref |-> reference,
                           generation |-> target_generation(reference.kind,
                                                            subject.generation),
                           asked |-> asked, answer |-> answer,
                           presented |-> shown,
                           result |-> r.result, created |-> r.created,
                           shared |->
                             \* _evaluate_shared_events, only on a match and
                             \* only if new_person.biography is not None
                             IF /\ r.result # NoId
                                /\ ~r.created
                                /\ subject.biography
                             THEN [called |-> TRUE, existing |-> r.result,
                                   relationship |->
                                     get_inverse_relationship(reference.kind)]
                             ELSE NoCur.shared]
                /\ phase' = Rank(reference.kind)
    /\ refCount' = refCount + 1
    /\ pc' = "link"
    /\ rec' = NoRec
    /\ UNCHANGED <<childLinks, spouseLinks, queue, clock, committed, subject,
                   sched, qlog>>
    /\ UNCHANGED validatorVars
    /\ UNCHANGED sideVars
    /\ UNCHANGED driverVars

\* the rest of the body of the parents loop
LinkParent ==
    /\ pc = "link"
    /\ cur.ref.kind = "parent"
    /\ LET parent_id == cur.result
           child_id == subject.id
           before == get_parents(childLinks, child_id)
           link(st, pid, dups, chk) ==
               LET qd == queue_if_pending(st.persons, queue, clock, pid)
               IN  /\ childLinks' = st.childLinks \cup {<<pid, child_id>>}
                   /\ spouseLinks' = st.spouseLinks
                   /\ persons' = qd.persons
                   /\ queue' = qd.queue
                   /\ clock' = qd.clock
                   /\ rec' = [kind |-> "parent", child |-> child_id,
                              candidate |-> parent_id, parents_before |-> before,
                              dups |-> dups, reconciled |-> chk.reconciled,
                              merged |-> chk.merged, keep |-> chk.keep,
                              drop |-> chk.drop, parent |-> pid, created |-> TRUE,
                              child_before |-> {}, spouse_before |-> {}]
           skip(st, pid, dups, chk) ==
               /\ childLinks' = st.childLinks
               /\ spouseLinks' = st.spouseLinks
               /\ persons' = st.persons
               /\ UNCHANGED <<queue, clock>>
               /\ rec' = [kind |-> "parent", child |-> child_id,
                          candidate |-> parent_id, parents_before |-> before,
                          dups |-> dups, reconciled |-> chk.reconciled,
                          merged |-> chk.merged, keep |-> chk.keep,
                          drop |-> chk.drop, parent |-> pid, created |-> FALSE,
                          child_before |-> {}, spouse_before |-> {}]
           none == [reconciled |-> FALSE, merged |-> FALSE, keep |-> NoId, drop |-> NoId]
       IN  IF parent_id = NoId \/ child_exists(childLinks, parent_id, child_id)
           THEN skip(Store, parent_id, {}, none)
           ELSE IF get_parent_count(childLinks, child_id) >= 2
           THEN LET dups == duplicate_parents(Store, child_id, parent_id)
                IN  \E pick \in (IF dups = {} THEN {NoId} ELSE dups) :
                      LET chk == check_and_merge_duplicate_parents(Store, child_id,
                                                                   parent_id, pick)
                          did == [reconciled |-> TRUE, merged |-> chk.merged,
                                  keep |-> chk.keep, drop |-> chk.drop]
                      IN  IF child_exists(chk.st.childLinks, chk.parent_id, child_id)
                          THEN skip(chk.st, chk.parent_id, dups, did)
                          ELSE link(chk.st, chk.parent_id, dups, did)
           ELSE link(Store, parent_id, {}, none)
    /\ pc' = "refs"
    /\ cur' = NoCur
    /\ UNCHANGED <<nextId, committed, subject, phase, refCount, sched, qlog>>
    /\ UNCHANGED validatorVars
    /\ UNCHANGED sideVars
    /\ UNCHANGED driverVars

\* the rest of the body of the children loop
LinkChild ==
    /\ pc = "link"
    /\ cur.ref.kind = "child"
    /\ LET child_id == cur.result
           parent_id == subject.id
           before == get_parents(childLinks, child_id)
           qd == queue_if_pending(persons, queue, clock, child_id)
       IN  IF child_id = NoId \/ child_exists(childLinks, parent_id, child_id)
           THEN /\ UNCHANGED <<persons, childLinks, queue, clock>>
                /\ rec' = [NoRec EXCEPT !.kind = "child", !.child = child_id,
                                        !.candidate = parent_id,
                                        !.parents_before = before]
           ELSE /\ childLinks' = childLinks \cup {<<parent_id, child_id>>}
                /\ persons' = qd.persons
                /\ queue' = qd.queue
                /\ clock' = qd.clock
                /\ rec' = [NoRec EXCEPT !.kind = "child", !.child = child_id,
                                        !.candidate = parent_id,
                                        !.parents_before = before,
                                        !.parent = parent_id, !.created = TRUE]
    /\ pc' = "refs"
    /\ cur' = NoCur
    /\ UNCHANGED <<spouseLinks, nextId, committed, subject, phase, refCount,
                   sched, qlog>>
    /\ UNCHANGED validatorVars
    /\ UNCHANGED sideVars
    /\ UNCHANGED driverVars

\* the rest of the body of the spouses loop
LinkSpouse ==
    /\ pc = "link"
    /\ cur.ref.kind = "spouse"
    /\ LET spouse_id == cur.result
       IN  IF spouse_id = NoId \/ spouse_exists(spouseLinks, subject.id, spouse_id)
           THEN UNCHANGED spouseLinks
           ELSE spouseLinks' = spouse_create(spouseLinks, subject.id, spouse_id)
    /\ rec' = [NoRec EXCEPT !.kind = "spouse"]
    /\ pc' = "refs"
    /\ cur' = NoCur
    /\ UNCHANGED <<persons, childLinks, queue, clock, nextId, committed, subject,
                   phase, refCount, sched, qlog>>
    /\ UNCHANGED validatorVars
    /\ UNCHANGED sideVars
    /\ UNCHANGED driverVars

\* the siblings and other-relatives loops do nothing after resolve
NextReference ==
    /\ pc = "link"
    /\ cur.ref.kind \in {"sibling", "other"}
    /\ rec' = [NoRec EXCEPT !.kind = cur.ref.kind]
    /\ pc' = "refs"
    /\ cur' = NoCur
    /\ UNCHANGED <<persons, childLinks, spouseLinks, queue, clock, nextId, committed,
                   subject, phase, refCount, sched, qlog>>
    /\ UNCHANGED validatorVars
    /\ UNCHANGED sideVars
    /\ UNCHANGED driverVars

\* the loops are done and the session ends.  _process_person reloads the
\* subject and converts it; when a merge deleted the subject's row the
\* conversion raises and the session rolls back.  Otherwise it commits.
FinishCycle ==
    /\ pc = "refs"
    /\ IF sched # "seed" /\ subject.id \notin DOMAIN persons
       THEN /\ persons' = committed.persons
            /\ childLinks' = committed.childLinks
            /\ spouseLinks' = committed.spouseLinks
            /\ queue' = committed.queue
            /\ pc' = "failed"
            /\ UNCHANGED committed
       ELSE /\ committed' = Snapshot
            /\ pc' = "idle"
            /\ UNCHANGED <<persons, childLinks, spouseLinks, queue>>
    /\ subject' = NoSubject
    /\ phase' = 1
    /\ sched' = "none"
    /\ cur' = NoCur
    /\ rec' = NoRec
    /\ UNCHANGED <<clock, nextId, refCount, qlog>>
    /\ UNCHANGED validatorVars
    /\ UNCHANGED sideVars
    /\ UNCHANGED driverVars

\* a session that commits what it holds although its body raised
CommitOnError ==
    /\ committed' = [persons |-> torn'.st.persons, childLinks |-> torn'.st.childLinks,
                     spouseLinks |-> torn'.st.spouseLinks, queue |-> queue]
    /\ persons' = torn'.st.persons
    /\ childLinks' = torn'.st.childLinks
    /\ spouseLinks' = torn'.st.spouseLinks
    /\ UNCHANGED queue

\* session() when the body raises: rollback, nothing of the session is
\* committed, and the exception goes on to the caller
Rollback ==
    /\ persons' = committed.persons
    /\ childLinks' = committed.childLinks
    /\ spouseLinks' = committed.spouseLinks
    /\ queue' = committed.queue
    /\ UNCHANGED committed

\* the except clause of the loop of generate: the error is printed and the
\* loop goes on with its next pass
CycleAborted ==
    /\ pc' = "failed"
    /\ subject' = NoSubject
    /\ phase' = 1
    /\ sched' = "none"
    /\ cur' = NoCur
    /\ rec' = NoRec
    /\ UNCHANGED <<clock, nextId, refCount, qlog, iteration>>
    /\ UNCHANGED validatorVars
    /\ UNCHANGED sideVars

\* the narrative or the extraction call raises: no session is open
GenerateFails ==
    /\ pc = "generate"
    /\ torn' = [kind |-> "generate", st |-> Store]
    /\ Rollback
    /\ CycleAborted

\* a call made while a reference is resolved raises (the Dedup Oracle after
\* its retries, a statement of the session)
ResolveFails ==
    /\ pc = "refs"
    /\ refCount < MaxRefs
    /\ torn' = [kind |-> "resolve", st |-> Store]
    /\ Rollback
    /\ CycleAborted

\* _merge_persons raises after the reassign calls, before the update of
\* keep and the delete of the duplicate
MergeFails ==
    /\ pc = "link"
    /\ cur.ref.kind = "parent"
    /\ cur.result # NoId
    /\ ~child_exists(childLinks, cur.result, subject.id)
    /\ \E pick \in duplicate_parents(Store, subject.id, cur.result) :
       \E keep \in {keep_of(Store, pick, cur.result)} :
       \E drop \in {IF keep = pick THEN cur.result ELSE pick} :
          /\ get_parent_count(childLinks, subject.id) >= 2
          /\ keep \in DOMAIN persons
          /\ drop \in DOMAIN persons
          /\ torn' = [kind |-> "merge", st |-> reassign_links(Store, keep, drop)]
    /\ Rollback
    /\ CycleAborted

Next ==
    \/ GenerateFails
    \/ ResolveFails
    \/ MergeFails
    \/ ProcessNextQueue
    \/ ProcessNextPending
    \/ CreateSeed
    \/ Generate
    \/ ResolveReference
    \/ LinkParent
    \/ LinkChild
    \/ LinkSpouse
    \/ NextReference
    \/ FinishCycle

Spec == Init /\ [][Next]_vars

\* the generate command has run its passes and is started again on the
\* same database
GenerateAgain ==
    /\ AtRest
    /\ iteration = MaxCount
    /\ iteration' = 0
    /\ UNCHANGED torn
    /\ UNCHANGED pipelineVars
    /\ UNCHANGED validatorVars
    /\ UNCHANGED sideVars

\* process_next when the queue is empty and nobody is Pending, for a seed
\* beyond the persons the model holds: the pass is counted and the cycle of
\* that seed, which selects no stored person, is left out
SeedLeftOut ==
    /\ AtRest
    /\ iteration < MaxCount
    /\ next_source(queue, persons) = "seed"
    /\ nextId > MaxPersons
    /\ iteration' = iteration + 1
    /\ UNCHANGED torn
    /\ UNCHANGED pipelineVars
    /\ UNCHANGED validatorVars
    /\ UNCHANGED sideVars

NextRuns ==
    \/ Next
    \/ GenerateAgain
    \/ SeedLeftOut

SpecRuns == Init /\ [][NextRuns]_vars

\* the command is started again and again, a pass that has begun runs on,
\* and the external calls of a pass do not fail for ever: the narrative and
\* the closing commit of a cycle come about whenever they are possible
\* again and again
FairSpecRuns ==
    /\ SpecRuns
    /\ WF_vars(NextRuns)
    /\ SF_vars(Generate)
    /\ SF_vars(FinishCycle)

----------------------------------------------------------------------------
(* The creation queue on its own: callers of QueueRepository *)

\* the state a queue run starts from: a new database
InitQueue ==
    /\ Init
    /\ persons = NewDatabase.persons

\* a call of QueueRepository.enqueue
Enqueue ==
    /\ \E person_id \in 1..QueueIds, priority \in 0..MaxPriority :
        /\ enqueue_inserts(queue, person_id) => clock <= MaxEnqueues
        /\ queue' = enqueue(queue, clock, person_id, priority)
        /\ clock' = IF enqueue_inserts(queue, person_id) THEN clock + 1 ELSE clock
        /\ qlog' = [op |-> "enqueue", person_id |-> person_id, priority |-> priority,
                    added_at |-> 0]
    /\ UNCHANGED <<persons, childLinks, spouseLinks, nextId, committed, pc, subject,
                   phase, refCount, sched, cur, rec>>
    /\ UNCHANGED validatorVars
    /\ UNCHANGED sideVars
    /\ UNCHANGED driverVars

\* a call of QueueRepository.dequeue; on an empty queue it returns None
Dequeue ==
    /\ queue' = dequeue(queue)
    /\ qlog' = IF queue = {} THEN [NoQlog EXCEPT !.op = "dequeue"]
               ELSE [op |-> "dequeue", person_id |-> dequeue_entry(queue).person_id,
                     priority |-> dequeue_entry(queue).priority,
                     added_at |-> dequeue_entry(queue).added_at]
    /\ UNCHANGED <<persons, childLinks, spouseLinks, clock, nextId, committed, pc,
                   subject, phase, refCount, sched, cur, rec>>
    /\ UNCHANGED validatorVars
    /\ UNCHANGED sideVars
    /\ UNCHANGED driverVars

NextQueue ==
    \/ Enqueue
    \/ Dequeue

SpecQueue == InitQueue /\ [][NextQueue]_vars

----------------------------------------------------------------------------
(* The merge engine on its own: _merge_persons over arbitrary links *)

\* three stored persons: one Complete, one Queued, one Pending
MergeRows ==
    (1 :> complete_row("Mary", "Smith", "female", 1900, "Boston", 0)) @@
    (2 :> [pending_row([kind |-> "parent", name |-> <<"Mary", "Smith">>,
                        gender |-> "female", year |-> 1900], -1)
              EXCEPT !.status = "queued", !.maiden_name = "Jones",
                     !.death_year = 1980, !.death_place = "Salem"]) @@
    (3 :> [pending_row([kind |-> "spouse", name |-> <<"John", "Smith">>,
                        gender |-> "male", year |-> NoYear], 0)
              EXCEPT !.birth_place = "Dover", !.death_year = 1975])

\* the same three persons, the first two both Complete with a narrative
\* or both without one
MergeRowSets ==
    { MergeRows,
      [MergeRows EXCEPT ![2].status = "complete", ![2].biography = TRUE],
      [MergeRows EXCEPT ![1].status = "pending", ![1].biography = FALSE] }

InitMerge ==
    /\ persons \in MergeRowSets
    /\ childLinks = {}
    /\ spouseLinks = {}
    /\ queue = {}
    /\ clock = 1
    /\ nextId = 4
    /\ committed = [persons |-> persons, childLinks |-> {}, spouseLinks |-> {},
                    queue |-> {}]
    /\ pc = "idle"
    /\ subject = NoSubject
    /\ phase = 1
    /\ refCount = 0
    /\ sched = "none"
    /\ cur = NoCur
    /\ rec = NoRec
    /\ qlog = NoQlog
    /\ ValidatorIdle
    /\ DriverIdle

\* the links stored so far
link_count == Cardinality(childLinks) + Cardinality(spouseLinks)

\* ChildLinkRepository.create between any two stored persons
CreateChildLink ==
    /\ link_count < MaxLinks
    /\ \E parent_id \in DOMAIN persons, child_id \in DOMAIN persons :
        /\ ~child_exists(childLinks, parent_id, child_id)
        /\ childLinks' = childLinks \cup {<<parent_id, child_id>>}
    /\ rec' = NoRec
    /\ UNCHANGED <<persons, spouseLinks, queue, clock, nextId, committed, pc, subject,
                   phase, refCount, sched, cur, qlog>>
    /\ UNCHANGED validatorVars
    /\ UNCHANGED sideVars
    /\ UNCHANGED driverVars

\* SpouseLinkRepository.create between any two stored persons
CreateSpouseLink ==
    /\ link_count < MaxLinks
    /\ \E person1_id \in DOMAIN persons, person2_id \in DOMAIN persons :
        /\ ~spouse_exists(spouseLinks, person1_id, person2_id)
        /\ spouseLinks' = spouse_create(spouseLinks, person1_id, person2_id)
    /\ rec' = NoRec
    /\ UNCHANGED <<persons, childLinks, queue, clock, nextId, committed, pc, subject,
                   phase, refCount, sched, cur, qlog>>
    /\ UNCHANGED validatorVars
    /\ UNCHANGED sideVars
    /\ UNCHANGED driverVars

\* a call of _merge_persons(keep_id, merge_id)
MergePersons ==
    /\ \E keep_id \in DOMAIN persons, merge_id \in DOMAIN persons :
        /\ keep_id # merge_id
        /\ LET st == merge_persons(Store, keep_id, merge_id)
           IN  /\ persons' = st.persons
               /\ childLinks' = st.childLinks
               /\ spouseLinks' = st.spouseLinks
               /\ rec' = [NoRec EXCEPT !.kind = "merge", !.merged = TRUE,
                                       !.keep = keep_id, !.drop = merge_id,
                                       !.child_before = childLinks,
                                       !.spouse_before = spouseLinks]
    /\ UNCHANGED <<queue, clock, nextId, committed, pc, subject, phase, refCount,
                   sched, cur, qlog>>
    /\ UNCHANGED validatorVars
    /\ UNCHANGED sideVars
    /\ UNCHANGED driverVars

\* the parents loop reaching _check_and_merge_duplicate_parents: some
\* candidate not yet linked to a child that has two parent links
ReconcileParent ==
    /\ \E child_id \in DOMAIN persons, new_parent_id \in DOMAIN persons :
        /\ ~child_exists(childLinks, new_parent_id, child_id)
        /\ get_parent_count(childLinks, child_id) >= 2
        /\ \E dups \in {duplicate_parents(Store, child_id, new_parent_id)} :
           \E pick \in (IF dups = {} THEN {NoId} ELSE dups) :
           \E chk \in {check_and_merge_duplicate_parents(Store, child_id,
                                                         new_parent_id, pick)} :
               /\ persons' = chk.st.persons
               /\ childLinks' = chk.st.childLinks
               /\ spouseLinks' = chk.st.spouseLinks
               /\ rec' = [NoRec EXCEPT !.kind = "reconcile", !.child = child_id,
                                       !.candidate = new_parent_id,
                                       !.parents_before = get_parents(childLinks, child_id),
                                       !.dups = dups, !.reconciled = TRUE,
                                       !.merged = chk.merged, !.keep = chk.keep,
                                       !.drop = chk.drop, !.parent = chk.parent_id,
                                       !.child_before = childLinks,
                                       !.spouse_before = spouseLinks]
    /\ UNCHANGED <<queue, clock, nextId, committed, pc, subject, phase, refCount,
                   sched, cur, qlog>>
    /\ UNCHANGED validatorVars
    /\ UNCHANGED sideVars
    /\ UNCHANGED driverVars

NextMerge ==
    \/ CreateChildLink
    \/ CreateSpouseLink
    \/ MergePersons
    \/ ReconcileParent

SpecMerge == InitMerge /\ [][NextMerge]_vars

----------------------------------------------------------------------------
(* Validation and correction loop: _validate_and_correct *)

\* the facts the Fact Extractor may hand to _validate_and_correct
FactsSpace ==
    [birth_year : {NoYear, 1900},
     death_year : {NoYear, 1899, 1900, 1950, 2030},
     parents : {<< >>, <<1890>>, <<1800>>, <<1870>>, <<1870, 1890>>},
     children : {<< >>, <<1910>>, <<1990>>, <<1930>>},
     spouses : {<< >>, <<1860>>},
     events : {<< >>, <<1890>>, <<1960>>, <<1920>>, <<1920, 1960>>}]

\* the facts the Correction Oracle may return
CorrectionMenu ==
    { [NoFacts EXCEPT !.birth_year = 1900, !.death_year = 1950, !.events = <<1920>>],
      [NoFacts EXCEPT !.birth_year = 1900, !.death_year = 2030, !.parents = <<1800>>],
      [NoFacts EXCEPT !.birth_year = 1900, !.events = <<1890>>],
      [NoFacts EXCEPT !.birth_year = 1900, !.parents = <<1890>>, !.spouses = <<1860>>] }

\* a call of _validate_and_correct with some extracted facts
InitValidate ==
    /\ \E db \in {NewDatabase} :
        /\ persons = db.persons
        /\ childLinks = db.childLinks
        /\ spouseLinks = db.spouseLinks
        /\ queue = db.queue
        /\ clock = db.clock
        /\ nextId = db.nextId
        /\ committed = EmptySnapshot
    /\ pc = "idle"
    /\ subject = NoSubject
    /\ phase = 1
    /\ refCount = 0
    /\ sched = "none"
    /\ cur = NoCur
    /\ rec = NoRec
    /\ qlog = NoQlog
    /\ vpc = "start"
    /\ extracted \in FactsSpace
    /\ current_data = NoFacts
    /\ validation = validation_result(<< >>, << >>)
    /\ attempt = 0
    /\ corrections = << >>
    /\ DriverIdle

\* the initial validation entering the loop whatever its result
ValidateInitialAlwaysCorrects ==
    /\ vpc = "start"
    /\ validation' = validate_extracted_data(extracted)
    /\ current_data' = extracted
    /\ vpc' = "correct"
    /\ UNCHANGED <<extracted, attempt, corrections>>
    /\ UNCHANGED pipelineVars
    /\ UNCHANGED sideVars
    /\ UNCHANGED driverVars

\* the initial validation: valid facts are returned at once
ValidateInitial ==
    /\ vpc = "start"
    /\ validation' = validate_extracted_data(extracted)
    /\ current_data' = extracted
    /\ vpc' = IF validation'.is_valid THEN "returned"
              ELSE IF MaxCorrectionAttempts > 0 THEN "correct"
              ELSE "returned"
    /\ UNCHANGED <<extracted, attempt, corrections>>
    /\ UNCHANGED pipelineVars
    /\ UNCHANGED sideVars
    /\ UNCHANGED driverVars

\* one pass of the loop that returns after it whatever the attempts left
CorrectStopsEarly ==
    /\ vpc = "correct"
    /\ attempt < MaxCorrectionAttempts
    /\ \E data \in CorrectionMenu :
        /\ current_data' = data
        /\ corrections' = Append(corrections, data)
        /\ validation' = validate_extracted_data(data)
    /\ attempt' = attempt + 1
    /\ vpc' = "returned"
    /\ UNCHANGED extracted
    /\ UNCHANGED pipelineVars
    /\ UNCHANGED sideVars
    /\ UNCHANGED driverVars

\* one pass of the for loop: the Correction Oracle is called with
\* current_data and validation.errors, its answer becomes current_data and
\* is validated; the loop returns on success or after the last attempt
Correct ==
    /\ vpc = "correct"
    /\ attempt < MaxCorrectionAttempts
    /\ \E data \in CorrectionMenu :
        /\ current_data' = data
        /\ corrections' = Append(corrections, data)
        /\ validation' = validate_extracted_data(data)
    /\ attempt' = attempt + 1
    /\ vpc' = IF validation'.is_valid \/ attempt' = MaxCorrectionAttempts
              THEN "returned"
              ELSE "correct"
    /\ UNCHANGED extracted
    /\ UNCHANGED pipelineVars
    /\ UNCHANGED sideVars
    /\ UNCHANGED driverVars

NextValidate ==
    \/ ValidateInitial
    \/ Correct

SpecValidate == InitValidate /\ [][NextValidate]_vars

\* the loop is straight-line code: once called it runs on, every call of the
\* Correction Oracle returning
FairSpecValidate == SpecValidate /\ WF_vars(NextValidate)

----------------------------------------------------------------------------
(* The wrapper of retry_with_backoff around one external call.  Delays are *)
(* tenths of a second.  An exception is known by the call that raised it.  *)

\* the pipeline is not running: a new database and nothing under way
Dormant ==
    /\ persons = NewDatabase.persons
    /\ childLinks = NewDatabase.childLinks
    /\ spouseLinks = NewDatabase.spouseLinks
    /\ queue = NewDatabase.queue
    /\ clock = NewDatabase.clock
    /\ nextId = NewDatabase.nextId
    /\ committed = EmptySnapshot
    /\ pc = "idle"
    /\ subject = NoSubject
    /\ phase = 1
    /\ refCount = 0
    /\ sched = "none"
    /\ cur = NoCur
    /\ rec = NoRec
    /\ qlog = NoQlog
    /\ ValidatorIdle
    /\ iteration = 0
    /\ torn = NoTorn

\* random.random() in tenths of a second
Jitters == {0, 5, 9}

RECURSIVE Power(_, _)
Power(b, n) == IF n = 0 THEN 1 ELSE b * Power(b, n - 1)

\* RetryConfig.calculate_delay with jitter enabled
calculate_delay(attempt_no, jitter) ==
    Min(BaseDelay * Power(ExponentialBase, attempt_no), MaxDelay) + jitter

\* what a call of func may do: return, raise one of retryable_exceptions,
\* raise something else
Outcomes == {"ok", "retryable", "other"}

\* the wrapper is entered with some configuration
InitRetry ==
    /\ Dormant
    /\ LimiterIdle
    /\ rpc = "call"
    /\ max_retries \in 0..MaxRetriesBound
    /\ retry_attempt = 0
    /\ calls = << >>
    /\ last_exception = 0
    /\ raised = 0
    /\ delays = << >>
    /\ arg = << >>
    /\ ret = << >>

\* a wrapper whose last pass is one short: range(config.max_retries)
RetryCallOneShort ==
    /\ rpc = "call"
    /\ retry_attempt <= max_retries
    /\ \E outcome \in Outcomes :
        /\ calls' = Append(calls, outcome)
        /\ CASE outcome = "ok" ->
                  /\ rpc' = "returned"
                  /\ UNCHANGED <<last_exception, raised>>
             [] outcome = "other" ->
                  /\ rpc' = "raised"
                  /\ raised' = Len(calls')
                  /\ UNCHANGED last_exception
             [] outcome = "retryable" ->
                  /\ last_exception' = Len(calls')
                  /\ IF retry_attempt + 1 < max_retries
                     THEN rpc' = "sleep" /\ UNCHANGED raised
                     ELSE rpc' = "raised" /\ raised' = last_exception'
    /\ UNCHANGED <<max_retries, retry_attempt, delays, harnessVars, limiterVars>>
    /\ UNCHANGED <<pipelineVars, validatorVars, driverVars>>

\* one pass of the for loop up to the sleep: func is awaited; its value is
\* returned, an exception outside retryable_exceptions leaves the wrapper, a
\* retryable one is kept and re-raised when no retry is left
RetryCall ==
    /\ rpc = "call"
    /\ retry_attempt <= max_retries
    /\ \E outcome \in Outcomes :
        /\ calls' = Append(calls, outcome)
        /\ CASE outcome = "ok" ->
                  /\ rpc' = "returned"
                  /\ UNCHANGED <<last_exception, raised>>
             [] outcome = "other" ->
                  /\ rpc' = "raised"
                  /\ raised' = Len(calls')
                  /\ UNCHANGED last_exception
             [] outcome = "retryable" ->
                  /\ last_exception' = Len(calls')
                  /\ IF retry_attempt < max_retries
                     THEN rpc' = "sleep" /\ UNCHANGED raised
                     ELSE rpc' = "raised" /\ raised' = last_exception'
    /\ UNCHANGED <<max_retries, retry_attempt, delays, harnessVars, limiterVars>>
    /\ UNCHANGED <<pipelineVars, validatorVars, driverVars>>

\* the rest of the pass: the delay is computed and slept, and the loop
\* goes to its next attempt
RetrySleep ==
    /\ rpc = "sleep"
    /\ \E jitter \in Jitters :
        delays' = Append(delays, calculate_delay(retry_attempt, jitter))
    /\ retry_attempt' = retry_attempt + 1
    /\ rpc' = "call"
    /\ UNCHANGED <<max_retries, calls, last_exception, raised, harnessVars, limiterVars>>
    /\ UNCHANGED <<pipelineVars, validatorVars, driverVars>>

NextRetry ==
    \/ RetryCall
    \/ RetrySleep

SpecRetry == InitRetry /\ [][NextRetry]_vars

\* the event loop runs the wrapper whenever it can go on
FairSpecRetry == SpecRetry /\ WF_vars(NextRetry)

----------------------------------------------------------------------------
(* heuristic_match_score and parse_name called on their own *)

\* the full names the calls are made with
NameMenu ==
    { << >>, <<"John">>, <<"John", "Smith">>, <<"Mary", "Jones">>,
      <<"John", "Smith", "Jr.">>, <<"John", "Smith", "Jr">>,
      <<"John", "Smith", "Sr.">>, <<"Mary", "Smith", "III">>,
      <<"John", "Jones", "Jr">>, <<"John", "Smith", "Jr", "III">>,
      <<"Mary", "Smith", "(nee Jones)">> }

\* the birth years the calls are made with
YearMenu == {NoYear, 1900, 1902, 1950}

\* a call of heuristic_match_score is about to be made
InitNames ==
    /\ Dormant
    /\ LimiterIdle
    /\ rpc = "idle"
    /\ max_retries = 0
    /\ retry_attempt = 0
    /\ calls = << >>
    /\ last_exception = 0
    /\ raised = 0
    /\ delays = << >>
    /\ arg \in [new_name : NameMenu, new_birth_year : YearMenu,
                 candidate_name : NameMenu, candidate_birth_year : YearMenu]
    /\ ret = << >>

\* the call: both names are parsed and the score is computed
ScoreNames ==
    /\ ret = << >>
    /\ ret' = [new_parsed |-> parse_name(arg.new_name),
               candidate_parsed |-> parse_name(arg.candidate_name),
               score |-> heuristic_match_score(arg.new_name, arg.new_birth_year,
                                               arg.candidate_name,
                                               arg.candidate_birth_year)]
    /\ UNCHANGED <<arg, retryVars, limiterVars>>
    /\ UNCHANGED <<pipelineVars, validatorVars, driverVars>>

NextNames == ScoreNames

SpecNames == InitNames /\ [][NextNames]_vars

----------------------------------------------------------------------------
(* _get_inverse_relationship called on its own, each result passed back in *)

\* a first call is about to be made with some relationship
InitInverse ==
    /\ Dormant
    /\ LimiterIdle
    /\ rpc = "idle"
    /\ max_retries = 0
    /\ retry_attempt = 0
    /\ calls = << >>
    /\ last_exception = 0
    /\ raised = 0
    /\ delays = << >>
    /\ arg \in RelationshipTypes
    /\ ret = << >>

\* a call with the relationship the last call returned
Invert ==
    /\ Len(ret) < MaxInversions
    /\ ret' = Append(ret, get_inverse_relationship(
                              IF ret = << >> THEN arg ELSE ret[Len(ret)]))
    /\ UNCHANGED <<arg, retryVars, limiterVars>>
    /\ UNCHANGED <<pipelineVars, validatorVars, driverVars>>

NextInverse == Invert

SpecInverse == InitInverse /\ [][NextInverse]_vars

----------------------------------------------------------------------------
(* The shortlist of _resolve_person_reference on its own: more candidates
   than the Dedup Oracle is ever shown *)

\* the scores the candidates may have after the spouse-surname check
ScoreMenu == {45, AcceptThreshold, SpouseBump, 100}

\* the searches have returned candidates 1..MaxScored, each with a score
InitCandidates ==
    /\ Dormant
    /\ LimiterIdle
    /\ rpc = "idle"
    /\ max_retries = 0
    /\ retry_attempt = 0
    /\ calls = << >>
    /\ last_exception = 0
    /\ raised = 0
    /\ delays = << >>
    /\ arg \in [1..MaxScored -> ScoreMenu]
    /\ ret = << >>

\* if good_candidates: sort, cut to five, call the Dedup Oracle
Shortlist ==
    /\ ret = << >>
    /\ \E asked \in {good_candidates(arg) # {}} :
        ret' = [asked |-> asked,
                presented |-> IF asked THEN presented_candidates(arg) ELSE << >>]
    /\ UNCHANGED <<arg, retryVars, limiterVars>>
    /\ UNCHANGED <<pipelineVars, validatorVars, driverVars>>

NextCandidates == Shortlist

SpecCandidates == InitCandidates /\ [][NextCandidates]_vars

----------------------------------------------------------------------------
(* The candidate scoring of _resolve_person_reference on its own, over a
   family with married names *)

\* the seed Mary Smith, John Jones named as her spouse, and Maryann Smith
\* named as her sibling
MarriedRows ==
    (1 :> complete_row("Mary", "Smith", "female", 1900, NoName, 0)) @@
    (2 :> pending_row([kind |-> "spouse", name |-> <<"John", "Jones">>,
                       gender |-> "male", year |-> NoYear], 0)) @@
    (3 :> pending_row([kind |-> "sibling", name |-> <<"Maryann", "Smith">>,
                       gender |-> "female", year |-> NoYear], 0))

\* the references resolved against the family
MarriedRefs ==
    [kind : {"other"},
     name : {<<"Mary", "Jones">>, <<"MARY", "Jones">>, <<"John", "Smith">>,
             <<"Mary", "Smith">>, <<"John", "Jones">>, <<"Maryann", "Jones">>},
     gender : {"unknown"},
     year : {NoYear, 1900, 1950}]

\* a reference is about to be scored against the family, John Jones being
\* linked as spouse to Mary, to Maryann, to both or to neither
InitBump ==
    /\ Dormant
    /\ LimiterIdle
    /\ rpc = "idle"
    /\ max_retries = 0
    /\ retry_attempt = 0
    /\ calls = << >>
    /\ last_exception = 0
    /\ raised = 0
    /\ delays = << >>
    /\ arg \in [st : [persons : {MarriedRows}, childLinks : {{}},
                       spouseLinks : SUBSET {spouse_pair(1, 2), spouse_pair(3, 2)}],
                 reference : MarriedRefs]
    /\ ret = << >>

\* the searches, the scoring loop and the shortlist
ScoreCandidates ==
    /\ ret = << >>
    /\ \E scores \in {candidate_scores(arg.st, arg.reference)} :
       \E asked \in {validate_person_reference(arg.reference)
                     /\ good_candidates(scores) # {}} :
        ret' = [scores |-> scores, asked |-> asked,
                presented |-> IF asked THEN presented_candidates(scores) ELSE << >>]
    /\ UNCHANGED <<arg, retryVars, limiterVars>>
    /\ UNCHANGED <<pipelineVars, validatorVars, driverVars>>

NextBump == ScoreCandidates

SpecBump == InitBump /\ [][NextBump]_vars

----------------------------------------------------------------------------
(* RateLimiter.acquire called by concurrent tasks of one event loop.  The
   statements between two awaits run at one reading of time.monotonic() *)

\* MaxTasks tasks are about to call acquire on a new limiter
InitLimiter ==
    /\ Dormant
    /\ SideIdle
    /\ limiter = [tokens |-> Interval, last_update |-> 0, lock |-> 0,
                  last_wait_time |-> 0]
    /\ loop = [now |-> 0, at |-> [t \in 1..MaxTasks |-> "start"],
               wake |-> [t \in 1..MaxTasks |-> 0], grants |-> << >>]

\* time.monotonic() moves on
Tick ==
    /\ loop.now < MaxNow
    /\ loop' = [loop EXCEPT !.now = @ + 1]
    /\ UNCHANGED limiter
    /\ UNCHANGED <<pipelineVars, validatorVars, driverVars, retryVars, harnessVars>>

\* an acquire that does not take the lock
EnterUnlocked(t) ==
    /\ loop.at[t] = "start"
    /\ LET elapsed == loop.now - limiter.last_update
           tokens == Min(limiter.tokens + elapsed, Interval)
       IN  IF tokens < Interval
           THEN /\ limiter' = [limiter EXCEPT !.tokens = tokens,
                                              !.last_update = loop.now]
                /\ loop' = [loop EXCEPT !.at[t] = "sleep",
                                        !.wake[t] = loop.now + (Interval - tokens)]
           ELSE /\ limiter' = [limiter EXCEPT !.tokens = tokens - Interval,
                                              !.last_update = loop.now,
                                              !.last_wait_time = 0]
                /\ loop' = [loop EXCEPT !.at[t] = "done",
                                        !.grants = Append(@, [task |-> t,
                                                              time |-> loop.now,
                                                              waited |-> 0])]
    /\ UNCHANGED <<pipelineVars, validatorVars, driverVars, retryVars, harnessVars>>

\* acquire from taking the lock to the sleep, or to the return when a
\* token is there
Enter(t) ==
    /\ loop.at[t] = "start"
    /\ limiter.lock = 0
    /\ LET elapsed == loop.now - limiter.last_update
           tokens == Min(limiter.tokens + elapsed, Interval)
       IN  IF tokens < Interval
           THEN /\ limiter' = [limiter EXCEPT !.tokens = tokens,
                                              !.last_update = loop.now,
                                              !.lock = t]
                /\ loop' = [loop EXCEPT !.at[t] = "sleep",
                                        !.wake[t] = loop.now + (Interval - tokens)]
           ELSE /\ limiter' = [limiter EXCEPT !.tokens = tokens - Interval,
                                              !.last_update = loop.now,
                                              !.last_wait_time = 0]
                /\ loop' = [loop EXCEPT !.at[t] = "done",
                                        !.grants = Append(@, [task |-> t,
                                                              time |-> loop.now,
                                                              waited |-> 0])]
    /\ UNCHANGED <<pipelineVars, validatorVars, driverVars, retryVars, harnessVars>>

\* acquire from the end of asyncio.sleep(wait_time) to the return
Wake(t) ==
    /\ loop.at[t] = "sleep"
    /\ loop.now >= loop.wake[t]
    /\ limiter' = [limiter EXCEPT !.tokens = 0,
                                  !.last_update = loop.now,
                                  !.last_wait_time = loop.wake[t] - limiter.last_update,
                                  !.lock = IF @ = t THEN 0 ELSE @]
    /\ loop' = [loop EXCEPT !.at[t] = "done",
                            !.grants = Append(@, [task |-> t, time |-> loop.now,
                                                  waited |-> loop.wake[t] - limiter.last_update])]
    /\ UNCHANGED <<pipelineVars, validatorVars, driverVars, retryVars, harnessVars>>

NextLimiter ==
    \/ Tick
    \/ \E t \in 1..MaxTasks : Enter(t)
    \/ \E t \in 1..MaxTasks : Wake(t)

SpecLimiter == InitLimiter /\ [][NextLimiter]_vars

----------------------------------------------------------------------------
(* _merge_persons on its own, over two records of one parent that each have
   parents of their own *)

\* persons 1 and 2 are two records of Mary Smith, both parents of 6; 3, 4
\* and 5 are recorded as parents of 1 or of 2
TwoRecordRows ==
    [id \in 1..6 |->
        IF id <= 2
        THEN complete_row("Mary", "Smith", "female", 1900, NoName, 0)
        ELSE IF id = 6
        THEN complete_row("John", "Smith", "male", NoYear, NoName, 1)
        ELSE pending_row([kind |-> "parent", name |-> <<"John", "Jones">>,
                          gender |-> "male", year |-> NoYear], -1)]

\* the Child Links the two records may have, at most two parents each
TwoRecordLinks == {<<3, 1>>, <<4, 1>>, <<3, 2>>, <<5, 2>>, <<1, 6>>, <<2, 6>>}

\* a call of _merge_persons on the two records is about to be made
InitTwoRecords ==
    /\ Dormant
    /\ LimiterIdle
    /\ rpc = "idle"
    /\ max_retries = 0
    /\ retry_attempt = 0
    /\ calls = << >>
    /\ last_exception = 0
    /\ raised = 0
    /\ delays = << >>
    /\ arg \in [st : [persons : {TwoRecordRows}, childLinks : SUBSET TwoRecordLinks,
                       spouseLinks : {{}}],
                 keep_id : {1, 2}, merge_id : {1, 2}]
    /\ arg.keep_id # arg.merge_id
    /\ ret = << >>

\* the call
MergeTwoRecords ==
    /\ ret = << >>
    /\ ret' = merge_persons(arg.st, arg.keep_id, arg.merge_id)
    /\ UNCHANGED <<arg, retryVars, limiterVars>>
    /\ UNCHANGED <<pipelineVars, validatorVars, driverVars>>

NextTwoRecords == MergeTwoRecords

SpecTwoRecords == InitTwoRecords /\ [][NextTwoRecords]_vars

----------------------------------------------------------------------------
(* Properties *)

\* the ids some link refers to
linked_ids == {l[1] : l \in childLinks \cup spouseLinks}
              \cup {l[2] : l \in childLinks \cup spouseLinks}

\* C1: after merge(keep, drop) the Person record of drop is deleted and no
\* Child Link and no Spouse Link refers to drop in either position, whatever
\* links keep and drop had before, links between the two included.
C1_MergeRemovesDrop ==
    rec.kind = "merge" =>
        /\ rec.drop \notin DOMAIN persons
        /\ rec.drop \notin linked_ids

\* a merge of two persons that were parent and child and spouses of each
\* other, the dropped one also being its own parent
C1_Witness ==
    /\ rec.kind = "merge"
    /\ <<rec.drop, rec.keep>> \in rec.child_before
    /\ <<rec.drop, rec.drop>> \in rec.child_before
    /\ spouse_pair(rec.keep, rec.drop) \in rec.spouse_before

\* C2: when the parents loop handles a candidate for a child that has two
\* distinct parents and the candidate passes the duplicate test against one
\* of them, candidate and that parent are merged, the child has at most two
\* distinct parents afterwards, the surviving id is linked to the child, and
\* no edge is added when that link was already there.  The merge hands the
\* dropped record's own parents to the survivor, so the statement fails when
\* the survivor is the child itself: a child that is its own parent absorbs
\* the parents of the candidate.
C2_DuplicateThirdParentMerged ==
    (rec.kind = "parent" /\ Cardinality(rec.parents_before) = 2 /\ rec.dups # {}) =>
        /\ rec.merged
        /\ {rec.keep, rec.drop} \cap rec.dups # {}
        /\ rec.candidate \in {rec.keep, rec.drop}
        /\ rec.drop \notin DOMAIN persons
        /\ rec.keep \in DOMAIN persons
        /\ rec.parent = rec.keep
        /\ <<rec.keep, rec.child>> \in childLinks
        /\ Cardinality(get_parents(childLinks, rec.child)) <= 2
        /\ rec.drop # rec.child => ~rec.created

\* C3: no session commits a Child Link that gives a child a third distinct
\* parent unless the reconcile step ran for that child and candidate parent,
\* the children loop included.
C3_ThirdParentReconciled ==
    [][(/\ rec.created
        /\ Cardinality(rec.parents_before) >= 2
        /\ rec.parent \notin rec.parents_before
        /\ <<rec.parent, rec.child>> \notin committed.childLinks
        /\ <<rec.parent, rec.child>> \in committed'.childLinks)
       => rec.reconciled]_vars

\* C4: the queue never holds two entries for one person id, and an enqueue
\* for a person that has an entry leaves the entry's priority at the maximum
\* of the old and the new priority.
C4_OneEntryMaxPriority ==
    /\ [](\A e1 \in queue, e2 \in queue : e1.person_id = e2.person_id => e1 = e2)
    /\ [][\A e \in queue :
            (qlog'.op = "enqueue" /\ qlog'.person_id = e.person_id) =>
                queue' = (queue \ {e})
                         \cup {[e EXCEPT !.priority = Max(e.priority, qlog'.priority)]}]_vars

\* a person was enqueued again with a lower priority and kept the higher one
C4_Witness ==
    /\ qlog.op = "enqueue"
    /\ \E e \in queue : e.person_id = qlog.person_id /\ e.priority > qlog.priority
    /\ Cardinality(queue) >= 2

\* C5: a dequeue removes and returns an entry that no other entry of the
\* queue exceeds in priority and that was enqueued before every other entry
\* of the same priority.
C5_DequeueOrder ==
    [][(qlog'.op = "dequeue" /\ queue # {}) =>
        \E e \in queue :
            /\ qlog'.person_id = e.person_id
            /\ queue' = queue \ {e}
            /\ \A o \in queue \ {e} :
                \/ o.priority < e.priority
                \/ o.priority = e.priority /\ e.added_at < o.added_at]_vars

\* a dequeue took an entry ahead of an older entry of lower priority and
\* ahead of a younger entry of its own priority
C5_Witness ==
    /\ qlog.op = "dequeue"
    /\ \E o \in queue : o.priority < qlog.priority /\ o.added_at < qlog.added_at
    /\ \E o \in queue : o.priority = qlog.priority /\ o.added_at > qlog.added_at

expected_row(reference, generation) ==
    [status |-> "pending",
     given_name |-> parse_name(reference.name).given_name,
     surname |-> parse_name(reference.name).surname,
     maiden_name |-> parse_name(reference.name).maiden_name,
     gender |-> reference.gender,
     birth_year |-> reference.year,
     birth_place |-> NoName, death_year |-> NoYear, death_place |-> NoName,
     biography |-> FALSE,
     generation |-> generation]

\* a reference the validator rejects
invalid_reference(reference) ==
    \/ reference.name = << >>
    \/ reference.year > CurrentYear

\* C7: resolve on a valid reference either returns the id of a Person that
\* already existed, the Dedup Oracle having confirmed a duplicate, and
\* creates no Person, or creates exactly one new Pending Person with the
\* parsed name, the reference's gender and birth year and the target
\* generation, and returns its id.
C7_ResolveReturnsOrCreates ==
    [][(pc = "refs" /\ pc' = "link" /\ ~invalid_reference(cur'.ref)) =>
        \/ /\ cur'.result \in DOMAIN persons
           /\ cur'.answer.is_duplicate
           /\ persons' = persons
        \/ /\ cur'.result \notin DOMAIN persons
           /\ DOMAIN persons' = DOMAIN persons \cup {cur'.result}
           /\ \A id \in DOMAIN persons : persons'[id] = persons[id]
           /\ persons'[cur'.result] = expected_row(cur'.ref, cur'.generation)]_vars

\* C8: when the Dedup Oracle answers duplicate with a well-formed id,
\* resolve returns it only if it is the id of a presented candidate, so
\* every id resolve returns identifies a stored Person.
C8_ReturnedIdIsCandidate ==
    (pc = "link" /\ cur.result # NoId) =>
        /\ cur.result \in DOMAIN persons
        /\ (cur.answer.is_duplicate /\ cur.answer.form = "uuid"
            /\ cur.result = cur.answer.id) =>
               cur.result \in SeqToSet(cur.presented)

\* the Dedup Oracle's answer "no match"
NoMatch == [is_duplicate |-> FALSE, form |-> "none", id |-> NoId]

\* C9: when the Dedup Oracle answers duplicate with a malformed id, resolve
\* raises nothing and does what it does for "no match": it creates one new
\* Pending Person for the reference and returns the new id, and the loop
\* over the subject's references goes on.
C9_MalformedIdIsNoMatch ==
    [][(pc = "refs" /\ cur'.answer.is_duplicate /\ cur'.answer.form = "truncated") =>
        /\ pc' = "link"
        /\ cur'.created
        /\ cur'.result \notin DOMAIN persons
        /\ DOMAIN persons' = DOMAIN persons \cup {cur'.result}
        /\ persons'[cur'.result].status = "pending"
        /\ persons' = resolve_person_reference(Store, cur'.ref, cur'.generation,
                                               NoMatch, nextId).persons
        /\ cur'.result = resolve_person_reference(Store, cur'.ref, cur'.generation,
                                                  NoMatch, nextId).result
        /\ UNCHANGED <<childLinks, spouseLinks, queue, subject>>]_vars

\* resolve created a Pending person after a duplicate answer whose id was
\* truncated, candidates having been presented
C9_Witness ==
    /\ pc = "link"
    /\ cur.answer.is_duplicate
    /\ cur.answer.form = "truncated"
    /\ cur.presented # << >>
    /\ cur.created
    /\ persons[cur.result].status = "pending"

\* C10: a reference with an empty name or a birth year in the future is
\* dropped: resolve returns no person, no Person, Child Link, Spouse Link or
\* Queue Entry is created for it, nothing is raised, the loop goes on to the
\* other references and the subject's row stays Complete.
C10_InvalidReferenceDropped ==
    /\ [][(pc = "refs" /\ cur' # NoCur /\ invalid_reference(cur'.ref)) =>
            /\ pc' = "link"
            /\ cur'.result = NoId
            /\ UNCHANGED <<persons, childLinks, spouseLinks, queue>>]_vars
    /\ [][(pc = "link" /\ invalid_reference(cur.ref)) =>
            /\ pc' = "refs"
            /\ UNCHANGED <<persons, childLinks, spouseLinks, queue>>
            /\ subject.id \in DOMAIN persons =>
                  persons'[subject.id].status = "complete"]_vars

\* the parents loop went on after a reference resolve had dropped, one
\* person having been created for another reference of the same subject
C10_Witness ==
    /\ pc = "refs"
    /\ rec.kind = "parent"
    /\ rec.candidate = NoId
    /\ ~rec.created
    /\ refCount = 2
    /\ subject.id \in DOMAIN persons
    /\ persons[subject.id].status = "complete"
    /\ \E id \in DOMAIN persons : persons[id].status = "queued"

\* a reference with a name and a birth year before the floor
old_reference(reference) ==
    /\ reference.name # << >>
    /\ reference.year # NoYear
    /\ reference.year < BirthYearFloor

new_persons == (DOMAIN persons \ DOMAIN committed.persons) \ {subject.id}

\* the Queue Entries of a person
entries_of(q, id) == {e \in q : e.person_id = id}

\* C12: a Person created from a parent reference of a subject at generation g
\* has generation g-1, one created from a child reference g+1, one created
\* from a spouse, sibling or other-relative reference g; no step changes it
\* afterwards; and when the subject's cycle commits, the new persons of
\* generation g-1 and g+1 are Queued with a Queue Entry at priority 1 while
\* those of generation g are Pending with no Queue Entry.
C12_GenerationsAndQueue ==
    /\ [][(pc = "refs" /\ cur' # NoCur /\ cur'.created) =>
            /\ cur'.result \in DOMAIN persons' \ DOMAIN persons
            /\ persons'[cur'.result].status = "pending"
            /\ persons'[cur'.result].generation =
                  (CASE cur'.ref.kind = "parent" -> subject.generation - 1
                     [] cur'.ref.kind = "child" -> subject.generation + 1
                     [] OTHER -> subject.generation)]_vars
    /\ [][\A id \in DOMAIN persons \cap DOMAIN persons' :
            persons'[id].generation = persons[id].generation]_vars
    /\ [][(pc = "refs" /\ pc' = "idle") =>
            \A id \in new_persons :
                IF persons[id].generation = subject.generation
                THEN /\ persons[id].status = "pending"
                     /\ entries_of(queue, id) = {}
                ELSE /\ persons[id].generation \in {subject.generation - 1,
                                                     subject.generation + 1}
                     /\ persons[id].status = "queued"
                     /\ \E e \in queue : entries_of(queue, id) = {e}
                                          /\ e.priority = LinkedPriority]_vars

\* a committed cycle of a seed that created a parent, now Queued one
\* generation up, and a sibling, still Pending in the seed's generation
C12_Witness ==
    /\ pc = "idle"
    /\ persons = committed.persons
    /\ \E s, p, b \in DOMAIN persons :
        /\ persons[s].status = "complete"
        /\ <<p, s>> \in childLinks
        /\ persons[p].status = "queued"
        /\ persons[p].generation = persons[s].generation - 1
        /\ [person_id |-> p, priority |-> LinkedPriority, added_at |-> 1] \in queue
        /\ persons[b].status = "pending"
        /\ persons[b].generation = persons[s].generation
        /\ entries_of(queue, b) = {}

\* the order of PersonStatus
StatusRank(status) ==
    CASE status = "pending" -> 1
      [] status = "queued" -> 2
      [] status = "processing" -> 3
      [] status = "complete" -> 4

\* C13: no step moves the status of a Person backward in
\* Pending < Queued < Processing < Complete, in the session at work (a
\* rollback, which discards the session, apart) and in the committed store,
\* and a Person leaves the store only as the dropped side of a merge.
C13_StatusMonotone ==
    /\ [][pc' # "failed" =>
            \A id \in DOMAIN persons :
                IF id \in DOMAIN persons'
                THEN StatusRank(persons'[id].status) >= StatusRank(persons[id].status)
                ELSE rec'.merged /\ rec'.drop = id]_vars
    /\ [][\A id \in DOMAIN committed.persons :
            IF id \in DOMAIN committed'.persons
            THEN StatusRank(committed'.persons[id].status)
                    >= StatusRank(committed.persons[id].status)
            ELSE \/ id \notin DOMAIN persons
                 \/ rec'.merged /\ rec'.drop = id]_vars

\* a cycle completed its subject, which the scheduler had committed as
\* Processing, and merged a committed Person away
C13_Witness ==
    /\ pc = "refs"
    /\ rec.merged
    /\ rec.drop \in DOMAIN committed.persons
    /\ rec.drop \notin DOMAIN persons
    /\ subject.id \in DOMAIN persons
    /\ persons[subject.id].status = "complete"
    /\ committed.persons[subject.id].status = "processing"

\* no output of the Correction Oracle so far validated
never_corrected ==
    /\ ~validate_extracted_data(extracted).is_valid
    /\ \A i \in 1..Len(corrections) : ~validate_extracted_data(corrections[i]).is_valid

\* C14: when the initial facts are invalid and the Correction Oracle never
\* returns facts that validate, the loop calls it exactly
\* MaxCorrectionAttempts times, never more, then returns the last corrected
\* facts with a result whose is_valid is false; and it does return.
C14_CorrectionGivesUp ==
    /\ [](attempt <= MaxCorrectionAttempts /\ Len(corrections) = attempt)
    /\ []((vpc = "returned" /\ never_corrected) =>
            /\ attempt = MaxCorrectionAttempts
            /\ current_data = corrections[MaxCorrectionAttempts]
            /\ validation = validate_extracted_data(current_data)
            /\ ~validation.is_valid)
    /\ <>(vpc = "returned")

\* the loop gave up after two different invalid corrections
C14_Witness ==
    /\ vpc = "returned"
    /\ never_corrected
    /\ attempt = MaxCorrectionAttempts
    /\ corrections[1] # corrections[2]
    /\ ~validation.is_valid

\* C15: facts that pass the initial validation are returned unchanged and the
\* Correction Oracle is not called; otherwise only the last output of the
\* Oracle may validate, and the loop returns it as soon as it does.
C15_CorrectionStopsEarly ==
    /\ (vpc # "start" /\ validate_extracted_data(extracted).is_valid) =>
            /\ vpc = "returned"
            /\ attempt = 0
            /\ corrections = << >>
            /\ current_data = extracted
            /\ validation = validate_extracted_data(extracted)
    /\ \A i \in 1..Len(corrections) :
            validate_extracted_data(corrections[i]).is_valid =>
                /\ i = Len(corrections)
                /\ vpc = "returned"
                /\ current_data = corrections[i]
                /\ validation = validate_extracted_data(corrections[i])

\* the first correction validated and was returned with an attempt to spare
C15_Witness ==
    /\ vpc = "returned"
    /\ attempt = 1
    /\ attempt < MaxCorrectionAttempts
    /\ validation.is_valid
    /\ current_data = corrections[1]
    /\ current_data # extracted

\* the rules of the messages in a list
rules_of(messages) == {messages[i].rule : i \in 1..Len(messages)}

\* the rules that only warn
WarningRules == {"long_lifespan", "short_lifespan", "parent_very_old",
                 "spouse_age_gap", "old_birth_year"}

\* C16: a validation result, of extracted facts or of a reference, is valid
\* exactly when its error list is empty, whatever its warnings; the lifespan,
\* old-parent, spouse-gap and old-birth-year rules only ever add warnings.
C16_ValidIffNoErrors ==
    /\ vpc # "start" =>
            /\ validation.is_valid <=> validation.errors = << >>
            /\ rules_of(validation.warnings) \subseteq WarningRules
            /\ rules_of(validation.errors) \cap WarningRules = {}
    /\ \A reference \in RefMenu :
            LET result == person_reference_result(reference)
            IN  /\ result.is_valid <=> result.errors = << >>
                /\ rules_of(result.warnings) \subseteq WarningRules
                /\ rules_of(result.errors) \cap WarningRules = {}

\* facts with a lifespan of 130 years, a parent aged 100 and a spouse 40
\* years older were returned as valid, with the three warnings
C16_Witness ==
    /\ vpc = "returned"
    /\ attempt = 0
    /\ validation.is_valid
    /\ rules_of(validation.warnings) =
            {"long_lifespan", "parent_very_old", "spouse_age_gap"}
    /\ \E reference \in RefMenu :
            /\ person_reference_result(reference).is_valid
            /\ rules_of(person_reference_result(reference).warnings) = {"old_birth_year"}

\* the parent/child pairs of the facts whose two birth years are known:
\* each named parent against the subject, the subject against each child
known_pairs(data) ==
    IF data.birth_year = NoYear THEN {}
    ELSE {<<y, data.birth_year>> : y \in SeqToSet(data.parents) \ {NoYear}}
         \cup {<<data.birth_year, y>> : y \in SeqToSet(data.children) \ {NoYear}}

\* C17: for the pairs of the validated facts with both birth years known,
\* the result carries a too-young error for an age at the child's birth
\* exactly when some pair has that age and it is below MinParentAge; an age
\* above MaxParentAge + 20 earns a warning and no error; and where no other
\* rule can speak (no death year, no event) the result is valid exactly when
\* no pair is below MinParentAge.
C17_ParentAgeRule ==
    vpc # "start" =>
        LET ages == {pair[2] - pair[1] : pair \in known_pairs(current_data)}
            message(rule, age) == [rule |-> rule, year |-> age]
        IN  /\ \A age \in ages :
                    /\ message("parent_too_young", age) \in SeqToSet(validation.errors)
                            <=> age < MinParentAge
                    /\ age > MaxParentAge + OlderFatherAllowance =>
                            message("parent_very_old", age) \in SeqToSet(validation.warnings)
            /\ \A i \in 1..Len(validation.errors) :
                    validation.errors[i].rule = "parent_too_young" =>
                        validation.errors[i].year \in ages
            /\ (current_data.death_year = NoYear /\ current_data.events = << >>) =>
                    (validation.is_valid <=> \A age \in ages : age >= MinParentAge)

\* facts naming a parent aged 100 at the subject's birth were returned valid
\* with the warning, and facts naming a parent aged 10 were found invalid
C17_Witness ==
    /\ vpc = "returned"
    /\ extracted.birth_year = 1900
    /\ extracted.parents = <<1890>>
    /\ ~validate_extracted_data(extracted).is_valid
    /\ current_data.parents = <<1800>>
    /\ validation.is_valid
    /\ [rule |-> "parent_very_old", year |-> 100] \in SeqToSet(validation.warnings)

\* C18: every event dated before the subject's birth year, when that is
\* known, or after the subject's death year, when that is known, makes the
\* result invalid, whether or not the other year is known.
C18_EventOutsideLife ==
    vpc # "start" =>
        \A i \in 1..Len(current_data.events) :
            LET event_year == current_data.events[i]
            IN  (\/ /\ current_data.birth_year # NoYear
                    /\ event_year < current_data.birth_year
                 \/ /\ current_data.death_year # NoYear
                    /\ event_year > current_data.death_year)
                => ~validation.is_valid

\* C19: when the reconcile step merges the candidate with a matching
\* existing parent, the candidate survives exactly when it has a narrative
\* and the existing parent has none; otherwise (both, neither, or only the
\* existing parent has one) the existing parent survives and the candidate
\* is deleted.  The survivor is the id handed back to the parents loop.
C19_KeepHasNarrative ==
    [][(rec'.kind = "reconcile" /\ rec'.merged) =>
        LET candidate == rec'.candidate
            existing == IF rec'.keep = candidate THEN rec'.drop ELSE rec'.keep
        IN  /\ existing \in rec'.dups
            /\ existing \in rec'.parents_before
            /\ candidate \notin rec'.parents_before
            /\ {rec'.keep, rec'.drop} = {candidate, existing}
            /\ rec'.keep = (IF persons[candidate].biography /\ ~persons[existing].biography
                            THEN candidate
                            ELSE existing)
            /\ rec'.keep \in DOMAIN persons'
            /\ rec'.drop \notin DOMAIN persons'
            /\ rec'.parent = rec'.keep]_vars

\* a candidate with a narrative survived its merge with a parent that had
\* none, in a store where another merge had kept the existing parent
C19_Witness ==
    /\ rec.kind = "reconcile"
    /\ rec.merged
    /\ rec.keep = rec.candidate
    /\ rec.drop \in rec.parents_before
    /\ persons[rec.keep].biography
    /\ rec.drop \notin DOMAIN persons

\* C20 as stated: after merge(keep, drop) every Child Link (drop, c) is
\* present as (keep, c), every Child Link (p, drop) as (p, keep), every
\* Spouse Link between drop and s, s other than keep, as a Spouse Link
\* between keep and s, and every link keep had before is still present.
C20_KeepLinksAllPresent ==
    [][rec'.merged =>
        LET keep == rec'.keep
            drop == rec'.drop
        IN  /\ \A l \in rec'.child_before :
                  /\ l[1] = drop => <<keep, l[2]>> \in childLinks'
                  /\ l[2] = drop => <<l[1], keep>> \in childLinks'
                  /\ keep \in {l[1], l[2]} => l \in childLinks'
            /\ \A s \in get_spouses(rec'.spouse_before, drop) \ {keep} :
                  spouse_pair(keep, s) \in spouseLinks'
            /\ \A l \in rec'.spouse_before :
                  keep \in {l[1], l[2]} => l \in spouseLinks']_vars

\* C20: after merge(keep, drop) the Child Links are exactly the links held
\* before with drop replaced by keep at either end, and the Spouse Links
\* are exactly those not touching drop together with a link between keep
\* and every spouse of drop other than keep and drop; in particular every
\* link keep had with a person other than drop is still present, and
\* nothing is stored twice.
C20_LinksTransferred ==
    [][rec'.merged =>
        LET keep == rec'.keep
            drop == rec'.drop
            moved(id) == IF id = drop THEN keep ELSE id
        IN  /\ childLinks' = {<<moved(l[1]), moved(l[2])>> : l \in rec'.child_before}
            /\ spouseLinks' =
                  {l \in rec'.spouse_before : drop \notin {l[1], l[2]}} \cup
                  {spouse_pair(keep, s) :
                      s \in get_spouses(rec'.spouse_before, drop) \ {keep, drop}}]_vars

\* drop's link to a third person moved onto a link keep already had, and
\* the spouse link between keep and drop is gone
C20_Witness ==
    /\ rec.merged
    /\ rec.keep # rec.drop
    /\ \E c \in DOMAIN persons \ {rec.keep, rec.drop} :
        /\ rec.child_before = {<<rec.drop, c>>, <<rec.keep, c>>}
        /\ rec.spouse_before = {spouse_pair(rec.keep, rec.drop)}
        /\ childLinks = {<<rec.keep, c>>}
        /\ spouseLinks = {}

\* C21: after merge(keep, drop) each of keep's maiden name, birth place,
\* death place and death date is keep's own prior value when it had one and
\* drop's value otherwise; the narrative, and the status with it, is taken
\* from drop only when keep had no narrative and drop has one; keep's name,
\* gender, birth year and generation are unchanged, and so is every other
\* stored person.
C21_MergeFillsMissingFields ==
    [][rec'.merged =>
        LET keep == persons[rec'.keep]
            drop == persons[rec'.drop]
            after == persons'[rec'.keep]
            filled(f, none) == after[f] = (IF keep[f] # none THEN keep[f] ELSE drop[f])
        IN  /\ filled("maiden_name", NoName)
            /\ filled("birth_place", NoName)
            /\ filled("death_place", NoName)
            /\ filled("death_year", NoYear)
            /\ filled("biography", FALSE)
            /\ after.status = (IF ~keep.biography /\ drop.biography
                               THEN drop.status ELSE keep.status)
            /\ \A f \in {"given_name", "surname", "gender", "birth_year", "generation"} :
                  after[f] = keep[f]
            /\ \A id \in DOMAIN persons' \ {rec'.keep} : persons'[id] = persons[id]]_vars

\* a kept record that had a birth place and no narrative took the narrative,
\* the status and the death place of the merged record and kept its own
\* birth place and death date
C21_Witness ==
    /\ rec.kind = "merge"
    /\ rec.keep = 3
    /\ rec.drop \notin DOMAIN persons
    /\ persons[3].birth_place = "Dover"
    /\ persons[3].death_year = 1975
    /\ persons[3].death_place = "Salem"
    /\ persons[3].biography
    /\ persons[3].status = "complete"
    /\ persons[3].given_name = "John"

\* C22: when the parents loop handles a candidate for a child that has two
\* parents and no existing parent passes the duplicate test against the
\* candidate, nothing is merged and no person is deleted, the candidate's id
\* is the one linked, the third Child Link is created and is the only change
\* to the links, and the cycle goes on to the next reference.
C22_UnmatchedThirdParentLinked ==
    [][(/\ pc = "link"
        /\ cur.ref.kind = "parent"
        /\ rec'.kind = "parent"
        /\ rec'.reconciled
        /\ rec'.dups = {})
       => /\ Cardinality(rec'.parents_before) >= 2
          /\ ~rec'.merged
          /\ DOMAIN persons' = DOMAIN persons
          /\ \A id \in DOMAIN persons \ {rec'.candidate} : persons'[id] = persons[id]
          /\ rec'.parent = rec'.candidate
          /\ rec'.created
          /\ childLinks' = childLinks \cup {<<rec'.candidate, rec'.child>>}
          /\ <<rec'.candidate, rec'.child>> \notin childLinks
          /\ spouseLinks' = spouseLinks
          /\ pc' = "refs"]_vars

\* a child with two parents was given a third one that matched neither
C22_Witness ==
    /\ rec.kind = "parent"
    /\ rec.reconciled
    /\ rec.dups = {}
    /\ ~rec.merged
    /\ rec.created
    /\ Cardinality(rec.parents_before) = 2
    /\ get_parents(childLinks, rec.child) = rec.parents_before \cup {rec.candidate}
    /\ Cardinality(get_parents(childLinks, rec.child)) = 3

\* C23: a cycle that fails while its references are processed, the point
\* between the reassignment of the links and the deletion of the duplicate
\* included, leaves the committed store as it was and the session back on
\* it; while references are processed the committed store changes only by
\* the commit that ends the cycle, which takes everything the session
\* holds; so the committed store never holds a half-done merge.
C23_MergeAllOrNothing ==
    /\ [][(pc \in {"refs", "link"} /\ pc' = "failed") =>
            /\ committed' = committed
            /\ persons' = committed.persons
            /\ childLinks' = committed.childLinks
            /\ spouseLinks' = committed.spouseLinks
            /\ queue' = committed.queue]_vars
    /\ [][(pc \in {"refs", "link"} /\ committed' # committed) =>
            /\ pc = "refs"
            /\ pc' = "idle"
            /\ committed' = Snapshot
            /\ UNCHANGED <<persons, childLinks, spouseLinks, queue>>]_vars
    /\ []((pc = "failed" /\ torn.kind = "merge") =>
            [persons |-> committed.persons, childLinks |-> committed.childLinks,
             spouseLinks |-> committed.spouseLinks] # torn.st)

\* a cycle failed inside a merge whose links were already reassigned, and
\* the committed store still has the links as they were
C23_Witness ==
    /\ pc = "failed"
    /\ torn.kind = "merge"
    /\ torn.st.childLinks # committed.childLinks
    /\ DOMAIN torn.st.persons = DOMAIN committed.persons
    /\ childLinks = committed.childLinks
    /\ persons = committed.persons

\* C24: an exception raised while a subject is processed ends that cycle
\* only: the loop of generate is still running, its next pass calls
\* process_next, and every pass after an exception asks the scheduler for a
\* subject and processes one.  The last part fails: a pass that dequeues the
\* entry of a person a merge deleted processes nobody.
C24_FailureEndsOnlyItsCycle ==
    /\ []((/\ pc = "failed"
            /\ iteration < MaxCount
            /\ next_source(queue, persons) = "seed" => nextId <= MaxPersons)
           => ENABLED (ProcessNextQueue \/ ProcessNextPending \/ CreateSeed))
    /\ [][pc' = "failed" => (iteration' = iteration /\ pc \in {"generate", "refs", "link"})]_vars
    /\ [][(torn.kind # "none" /\ iteration' = iteration + 1) =>
            /\ pc \in {"idle", "failed"}
            /\ sched' \in {"queue", "pending", "seed"}
            /\ subject' # NoSubject
            /\ pc' \in {"generate", "refs"}]_vars

\* C25: a wrapped call that fails with a retryable error every time is
\* attempted max_retries + 1 times and the error of the last attempt is the
\* one re-raised; an error that is not retryable leaves the wrapper on the
\* attempt that raised it, so a call failing that way at once is attempted
\* once; nothing is attempted after a success; every attempt but the last
\* failed with a retryable error; and the wrapper always comes to an end.
C25_RetryAttempts ==
    /\ [](/\ Len(calls) <= max_retries + 1
          /\ \A k \in 1..(Len(calls) - 1) : calls[k] = "retryable"
          /\ Len(delays) = retry_attempt
          /\ Len(calls) = retry_attempt + (IF rpc = "call" THEN 0 ELSE 1))
    /\ []((rpc = "raised" /\ calls[Len(calls)] = "retryable") =>
            /\ Len(calls) = max_retries + 1
            /\ raised = Len(calls))
    /\ []((rpc = "raised" /\ calls[Len(calls)] = "other") =>
            /\ raised = Len(calls)
            /\ (calls[1] = "other" => Len(calls) = 1))
    /\ [](rpc = "returned" => (calls[Len(calls)] = "ok" /\ raised = 0))
    /\ [](rpc = "raised" => calls[Len(calls)] # "ok")
    /\ [][(rpc \in {"returned", "raised"}) => (calls' = calls)]_vars
    /\ <>(rpc \in {"returned", "raised"})

\* three retries were allowed, all four attempts failed with a retryable
\* error, and the fourth error was re-raised
C25_Witness ==
    /\ rpc = "raised"
    /\ max_retries = 3
    /\ calls = <<"retryable", "retryable", "retryable", "retryable">>
    /\ raised = 4
    /\ Len(delays) = 3

\* C26: the score is 0 whenever both names carry suffixes and the sets of
\* their suffixes differ, whatever the given names, surnames and birth
\* years; the rule asks for a suffix on both sides, so with a name that has
\* none equal given names still score their 25 hundredths and equal birth
\* years their 50.
C26_SuffixMismatchScoresZero ==
    (ret # << >>) =>
        LET np == ret.new_parsed
            cp == ret.candidate_parsed
        IN  /\ (/\ np.suffixes # << >>
                /\ cp.suffixes # << >>
                /\ SeqToSet(np.suffixes) # SeqToSet(cp.suffixes)) => ret.score = 0
            /\ (np.suffixes = << >> \/ cp.suffixes = << >>) =>
                  /\ Lower(np.given_name) = Lower(cp.given_name) => ret.score >= 25
                  /\ (arg.new_birth_year # NoYear
                      /\ arg.new_birth_year = arg.candidate_birth_year) => ret.score >= 50
            /\ (np.suffixes # << >> /\ SeqToSet(np.suffixes) = SeqToSet(cp.suffixes)) =>
                  (Lower(np.given_name) = Lower(cp.given_name) => ret.score >= 25)

\* Jr against Sr with the same given name, surname and birth year scored 0
C26_Witness ==
    /\ ret # << >>
    /\ arg.new_name = <<"John", "Smith", "Jr">>
    /\ arg.candidate_name = <<"John", "Smith", "Sr.">>
    /\ arg.new_birth_year = 1900
    /\ arg.candidate_birth_year = 1900
    /\ ret.new_parsed.suffixes = <<"Jr">>
    /\ ret.candidate_parsed.suffixes = <<"Sr">>
    /\ ret.score = 0

\* C27: parse_name removes a trailing generational suffix whole, with or
\* without its period: the suffix list holds the suffix without the period
\* and the surname is the last token that is not a suffix; "John Smith Jr."
\* gives given name John, surname Smith and suffixes [Jr].  The pattern ends
\* in a word boundary, so the period of "Jr." is never part of the match: it
\* stays in the name and becomes the surname.
C27_TrailingSuffixRemoved ==
    (ret # << >>) =>
        LET name == arg.new_name
            parsed == ret.new_parsed
        IN  /\ (Len(name) = 3 /\ name[3] \in SuffixTokens) =>
                  /\ parsed.given_name = name[1]
                  /\ parsed.surname = name[2]
                  /\ parsed.suffixes = <<SuffixMatch(name[3])>>
            /\ name = <<"John", "Smith", "Jr.">> =>
                  /\ parsed.given_name = "John"
                  /\ parsed.surname = "Smith"
                  /\ parsed.suffixes = <<"Jr">>

\* C28: the inverse of the inverse of a relationship is the relationship;
\* parent and child, grandparent and grandchild, uncle and nephew, aunt and
\* niece invert to each other; spouse, sibling, cousin and other invert to
\* themselves; uncle never inverts to niece.
C28_InverseIsInvolution ==
    LET before(k) == IF k = 1 THEN arg ELSE ret[k - 1]
        pairs == {<<"parent", "child">>, <<"grandparent", "grandchild">>,
                  <<"uncle", "nephew">>, <<"aunt", "niece">>}
        selfs == {"spouse", "sibling", "cousin", "other"}
    IN  \A k \in 1..Len(ret) :
            /\ ret[k] \in RelationshipTypes
            /\ k >= 2 => ret[k] = before(k - 1)
            /\ \A pr \in pairs :
                  /\ before(k) = pr[1] => ret[k] = pr[2]
                  /\ before(k) = pr[2] => ret[k] = pr[1]
            /\ before(k) \in selfs => ret[k] = before(k)
            /\ before(k) = "uncle" => ret[k] # "niece"

\* uncle was inverted to nephew and nephew back to uncle
C28_Witness ==
    /\ arg = "uncle"
    /\ Len(ret) >= 2
    /\ ret[1] = "nephew"
    /\ ret[2] = "uncle"

\* C29: every Spouse Link row has the smaller id first, so no two rows
\* stand for the same unordered pair, and exists(a, b) and exists(b, a) both
\* say whether a row for the pair {a, b} is stored; this also holds of the
\* rows that a merge has written while reassigning links.
C29_SpouseLinksCanonical ==
    /\ \A l \in spouseLinks : l[1] <= l[2]
    /\ \A l \in spouseLinks, k \in spouseLinks :
          ({l[1], l[2]} = {k[1], k[2]}) => l = k
    /\ \A a \in DOMAIN persons, b \in DOMAIN persons :
          /\ spouse_exists(spouseLinks, a, b) = spouse_exists(spouseLinks, b, a)
          /\ spouse_exists(spouseLinks, a, b) <=>
                (<<a, b>> \in spouseLinks \/ <<b, a>> \in spouseLinks)

\* a merge moved the link of the dropped person to a kept person with a
\* larger id than the spouse
C29_Witness ==
    /\ rec.merged
    /\ \E s \in DOMAIN persons :
        /\ s < rec.keep
        /\ s # rec.drop
        /\ spouse_pair(rec.drop, s) \in rec.spouse_before
        /\ ~spouse_exists(rec.spouse_before, rec.keep, s)
        /\ <<s, rec.keep>> \in spouseLinks

\* C30: the Dedup Oracle is called exactly when some candidate scores at
\* least 0.5; it is then shown at most 5 candidates, each scoring at least
\* 0.5, no candidate twice, in descending order of score, and no candidate
\* left out scores higher than one that is shown; when no candidate
\* reaches 0.5 it is not called and shown nothing.
C30_OracleSeesBestFive ==
    (ret # << >>) =>
        LET shown == ret.presented
            good == {id \in DOMAIN arg : arg[id] >= AcceptThreshold}
        IN  /\ ret.asked <=> good # {}
            /\ ~ret.asked => shown = << >>
            /\ ret.asked =>
                  /\ Len(shown) >= 1
                  /\ Len(shown) <= MaxCandidates
                  /\ Len(shown) = Min(Cardinality(good), MaxCandidates)
                  /\ \A i \in 1..Len(shown) : shown[i] \in good
                  /\ \A i \in 1..Len(shown), j \in 1..Len(shown) :
                        /\ i # j => shown[i] # shown[j]
                        /\ i < j => arg[shown[i]] >= arg[shown[j]]
                  /\ \A id \in good \ SeqToSet(shown) :
                        \A i \in 1..Len(shown) : arg[id] <= arg[shown[i]]

\* six candidates reach 0.5 with different scores, one below does not; the
\* Oracle was shown five and the lowest of the six was left out
C30_Witness ==
    /\ ret # << >>
    /\ ret.asked
    /\ Cardinality({id \in DOMAIN arg : arg[id] >= AcceptThreshold}) > MaxCandidates
    /\ Len(ret.presented) = MaxCandidates
    /\ arg[ret.presented[1]] = 100
    /\ arg[ret.presented[MaxCandidates]] = SpouseBump
    /\ \E id \in DOMAIN arg :
        /\ arg[id] = AcceptThreshold
        /\ id \notin SeqToSet(ret.presented)

C32_MatchSharesContext ==
    [][(/\ pc = "refs"
        /\ pc' = "link"
        /\ cur'.asked
        /\ cur'.answer.is_duplicate
        /\ cur'.result \in DOMAIN persons
        /\ ~cur'.created) =>
            /\ cur'.shared.called
            /\ cur'.shared.existing = cur'.result
            /\ cur'.shared.relationship = get_inverse_relationship(cur'.ref.kind)]_vars

\* C33: in every committed state a person has narrative text if and only if
\* its status is Complete.
C33_NarrativeIffComplete ==
    \A id \in DOMAIN committed.persons :
        committed.persons[id].biography <=> committed.persons[id].status = "complete"

\* a committed state after a merge has deleted a row: the survivor and a
\* subject processed since are Complete with a narrative, a person linked
\* by that subject is Queued without one
C33_Witness ==
    /\ pc = "idle"
    /\ iteration >= 1
    /\ Cardinality(DOMAIN committed.persons) < nextId - 1
    /\ \E a \in DOMAIN committed.persons, b \in DOMAIN committed.persons :
        /\ a # b
        /\ committed.persons[a].status = "complete"
        /\ committed.persons[a].biography
        /\ committed.persons[b].status = "complete"
        /\ committed.persons[b].biography
    /\ \E c \in DOMAIN committed.persons :
        /\ committed.persons[c].status = "queued"
        /\ ~committed.persons[c].biography

\* C34: whatever the interleaving of the tasks calling acquire, the first
\* grant is immediate, two consecutive grants are at least one refill
\* interval (60 / requests_per_minute seconds) apart, and the token count
\* stays between 0 and 1.
C34_GrantsSerialized ==
    /\ limiter.tokens >= 0
    /\ limiter.tokens <= Interval
    /\ Len(loop.grants) >= 1 => loop.grants[1].waited = 0
    /\ \A i \in 1..(Len(loop.grants) - 1) :
          loop.grants[i + 1].time - loop.grants[i].time >= Interval

\* three tasks called acquire at the same time: one was granted at once,
\* the others after sleeping, one interval apart each
C34_Witness ==
    /\ Len(loop.grants) = 3
    /\ loop.grants[1].time = 0
    /\ loop.grants[2].time = Interval
    /\ loop.grants[2].waited = Interval
    /\ loop.grants[3].time = 2 * Interval
    /\ loop.grants[3].waited > 0
    /\ limiter.tokens = 0

\* C35: in every committed state an existing person has a queue entry if
\* and only if its status is Queued.
C35_QueuedIffEntry ==
    \A id \in DOMAIN committed.persons :
        (\E e \in committed.queue : e.person_id = id)
            <=> committed.persons[id].status = "queued"

\* the second pass of a run that began with an empty database: the seed is
\* Complete, one of the two persons it queued has been dequeued and set to
\* Processing, the other is Queued and still has its entry
C35_Witness ==
    /\ pc = "generate"
    /\ sched = "queue"
    /\ iteration = 2
    /\ DOMAIN committed.persons = {1, 2, 3}
    /\ committed.persons[1].status = "complete"
    /\ committed.persons[subject.id].status = "processing"
    /\ ~ \E e \in committed.queue : e.person_id = subject.id
    /\ \E id \in {2, 3} \ {subject.id} :
        /\ committed.persons[id].status = "queued"
        /\ \E e \in committed.queue : e.person_id = id

\* C36: every queue entry refers to a person that exists, also after a
\* merge: no step leaves an entry without its person, and a call of
\* process_next that consumes a queue entry has a subject.  A merge deletes
\* the merged row and leaves its entry, and the call that dequeues it
\* returns nothing.
C36_EntriesHavePersons ==
    [][/\ (\A e \in queue : e.person_id \in DOMAIN persons)
           => (\A e \in queue' : e.person_id \in DOMAIN persons')
       /\ (AtRest /\ sched' = "queue" /\ queue' # queue) => subject' # NoSubject]_vars

\* C37: no person is selected as a subject twice.  process_next selects
\* only persons that are Queued or Pending and have no narrative, and sets
\* them to Processing; from one committed state to the next a person that
\* is Processing or Complete stays Processing or Complete as long as it
\* exists, and a Complete person stays Complete, keeps its narrative and is
\* given no queue entry.
C37_SelectedOnce ==
    [][/\ (AtRest /\ subject' # NoSubject /\ sched' \in {"queue", "pending"}) =>
            /\ persons[subject'.id].status \in {"queued", "pending"}
            /\ committed.persons[subject'.id].status \in {"queued", "pending"}
            /\ ~persons[subject'.id].biography
            /\ committed'.persons[subject'.id].status = "processing"
       /\ \A id \in DOMAIN committed.persons \cap DOMAIN committed'.persons :
            /\ committed.persons[id].status \in {"processing", "complete"} =>
                  committed'.persons[id].status \in {"processing", "complete"}
            /\ committed.persons[id].status = "complete" =>
                  /\ committed'.persons[id].status = "complete"
                  /\ committed'.persons[id].biography
                  /\ (\E e \in committed'.queue : e.person_id = id)
                        => (\E e \in committed.queue : e.person_id = id)]_vars

\* a later pass of a run: the subject, taken from the queue, named a
\* parent that was resolved to a person already Complete in the committed
\* state; the parent was linked and given no queue entry
C37_Witness ==
    /\ pc = "refs"
    /\ sched = "queue"
    /\ iteration >= 2
    /\ rec.kind = "parent"
    /\ rec.parent \in DOMAIN committed.persons
    /\ rec.parent # subject.id
    /\ committed.persons[rec.parent].status = "complete"
    /\ persons[rec.parent].status = "complete"
    /\ <<rec.parent, subject.id>> \in childLinks
    /\ <<rec.parent, subject.id>> \notin committed.childLinks
    /\ ~ \E e \in queue : e.person_id = rec.parent

\* C38: no step of the pipeline stores a Child Link with the same person as
\* parent and child or a Spouse Link with the same person on both sides.
\* Nothing compares the id the resolver returns with the
\* id of the subject, so a reference resolved to the subject itself is
\* linked to it.
C38_NoSelfLink ==
    [][(\A l \in childLinks \cup spouseLinks : l[1] # l[2])
        => (\A l \in childLinks' \cup spouseLinks' : l[1] # l[2])]_vars

\* C39: if every person has at most two parents before merge(keep, drop),
\* every person has at most two parents afterwards, keep included.  The
\* parents of drop are all moved to keep, whatever parents keep has.
C39_MergeKeepsTwoParents ==
    (ret # << >>) =>
        ((\A id \in DOMAIN arg.st.persons :
              get_parent_count(arg.st.childLinks, id) <= 2)
         => (\A id \in DOMAIN ret.persons :
              get_parent_count(ret.childLinks, id) <= 2))

\* C40: every person set to Processing is eventually Complete or deleted,
\* given that the command keeps being run and the external calls do not
\* fail for ever.  A subject whose cycle raised stays Processing in the
\* committed state; process_next takes queue entries and Pending persons
\* only, so no later pass selects it.
C40_ProcessingEnds ==
    \A id \in 1..MaxPersons :
        (id \in DOMAIN committed.persons
         /\ committed.persons[id].status = "processing")
        ~> (\/ id \notin DOMAIN committed.persons
            \/ committed.persons[id].status = "complete")

====
